---------------------------- MODULE Spec2Model ----------------------------
(***************************************************************************)
(* Ledger engine of tilapia-suite (src/app.py): journal posting, balance   *)
(* aggregation, statement builders, cash-flow classifier and the           *)
(* inventory costing card, as a state machine over the store's tables.     *)
(*                                                                         *)
(* Encodings                                                               *)
(*   money         integer number of 0.01 currency units (the store's      *)
(*                 numeric(15,2) columns); the tolerance 0.01 is TOL = 1   *)
(*   account code  "c-dddd" as the integer cdddd ("1-1000" is 11000), so   *)
(*                 startswith("4-") is code \div 10000 = 4 and             *)
(*                 startswith("1-1") is code \div 1000 = 11                *)
(*   date          day number; None (no as-of date) is the value None      *)
(*   journal_types a set of journal types; the empty set is Python's       *)
(*                 None / [] (both falsy: no filter)                       *)
(***************************************************************************)
EXTENDS Integers, Sequences, FiniteSets, TLC

VARIABLES
    accounts,          \* table accounts: set of rows
    journal_entries,   \* table journal_entries: rows in insertion (id) order
    inventory_card,    \* table inventory_card: rows in insertion (id) order
    assets,            \* table assets: set of rows
    tables,            \* row counts of the tables sales, purchases, transactions
    last               \* the request handled last and the handler's response

vars == <<accounts, journal_entries, inventory_card, assets, tables, last>>

-----------------------------------------------------------------------------
(* Bounds of the model *)

MaxLines == 4
MaxDate == 2
MaxAmount == 2
MaxRows == 3
MaxQty == 2
MaxPrice == 2

(* Program constants *)

TOL == 1
None == -1
CASH_ACCOUNT_CODE == 11000

Dates == 1..MaxDate
Amounts == 1..MaxAmount
JournalTypes == {"GJ", "AJ", "CJ"}

-----------------------------------------------------------------------------
(* Helpers *)

Abs(x) == IF x < 0 THEN -x ELSE x

RECURSIVE SumDebit(_)
SumDebit(entries) ==
    IF entries = <<>> THEN 0 ELSE Head(entries).debit + SumDebit(Tail(entries))

RECURSIVE SumCredit(_)
SumCredit(entries) ==
    IF entries = <<>> THEN 0 ELSE Head(entries).credit + SumCredit(Tail(entries))

RECURSIVE SumAmount(_)
SumAmount(items) ==
    IF items = {} THEN 0
    ELSE LET it == CHOOSE x \in items : TRUE
         IN  it.amount + SumAmount(items \ {it})

Prefix1(code) == code \div 10000
Prefix2(code) == code \div 1000

Account(code, normal_balance, beginning_balance) ==
    [account_code |-> code, normal_balance |-> normal_balance,
     beginning_balance |-> beginning_balance]

(* init_default_accounts: the chart of accounts created at application start *)
default_accounts ==
    { Account(11000, "debit", 0),  Account(11400, "debit", 0),
      Account(11200, "debit", 0),  Account(11300, "debit", 0),
      Account(12200, "debit", 0),  Account(12210, "credit", 0),
      Account(21000, "credit", 0), Account(22000, "credit", 0),
      Account(31000, "credit", 0), Account(31100, "debit", 0),
      Account(31200, "credit", 0),
      Account(41000, "credit", 0), Account(41201, "credit", 0),
      Account(51000, "debit", 0),
      Account(61300, "debit", 0),  Account(61000, "debit", 0),
      Account(61100, "debit", 0),  Account(61400, "debit", 0),
      Account(61500, "debit", 0),  Account(61501, "debit", 0) }

get_all_accounts == accounts

AccountCodes == {a.account_code : a \in accounts}

(* next((a for a in accounts if a['account_code'] == code), None) *)
find_account(code) == CHOOSE a \in accounts : a.account_code = code

-----------------------------------------------------------------------------
(* Balance aggregation *)

(* The store query of get_ledger_balance / get_final_balances:              *)
(* .lte('date', end_date) only if end_date, .in_('journal_type', ...) only  *)
(* if journal_types.                                                        *)
DateFilter(e, end_date) == end_date # None => e.date <= end_date

TypeFilter(e, journal_types) ==
    journal_types # {} => e.journal_type \in journal_types

(* get_ledger_balance with the date filter .lt in place of .lte *)
get_ledger_balance_before(account_code, end_date, journal_types) ==
    IF account_code \notin AccountCodes THEN 0
    ELSE LET account == find_account(account_code)
             entries == SelectSeq(journal_entries,
                           LAMBDA e : /\ e.account_code = account_code
                                      /\ (end_date # None => e.date < end_date)
                                      /\ TypeFilter(e, journal_types))
             total_debit == SumDebit(entries)
             total_credit == SumCredit(entries)
         IN  IF account.normal_balance = "debit"
             THEN account.beginning_balance + (total_debit - total_credit)
             ELSE account.beginning_balance + (total_credit - total_debit)

get_ledger_balance(account_code, end_date, journal_types) ==
    IF account_code \notin AccountCodes THEN 0
    ELSE LET account == find_account(account_code)
             entries == SelectSeq(journal_entries,
                           LAMBDA e : /\ e.account_code = account_code
                                      /\ DateFilter(e, end_date)
                                      /\ TypeFilter(e, journal_types))
             total_debit == SumDebit(entries)
             total_credit == SumCredit(entries)
         IN  IF account.normal_balance = "debit"
             THEN account.beginning_balance + (total_debit - total_credit)
             ELSE account.beginning_balance + (total_credit - total_debit)

(* Step 2 of get_final_balances: the loop over the fetched entries, which   *)
(* adds each entry to its account's running balance.                        *)
(* process_entries without the credit-normal branch *)
RECURSIVE process_entries_debit_only(_, _)
process_entries_debit_only(balances, entries) ==
    IF entries = <<>> THEN balances
    ELSE LET entry == Head(entries)
             code == entry.account_code
         IN  IF code \in DOMAIN balances
             THEN process_entries_debit_only(
                      [balances EXCEPT ![code] =
                          @ + (entry.debit - entry.credit)],
                      Tail(entries))
             ELSE process_entries_debit_only(balances, Tail(entries))

RECURSIVE process_entries(_, _)
process_entries(balances, entries) ==
    IF entries = <<>> THEN balances
    ELSE LET entry == Head(entries)
             code == entry.account_code
         IN  IF code \in DOMAIN balances
             THEN process_entries(
                      [balances EXCEPT ![code] =
                          IF find_account(code).normal_balance = "debit"
                          THEN @ + (entry.debit - entry.credit)
                          ELSE @ + (entry.credit - entry.debit)],
                      Tail(entries))
             ELSE process_entries(balances, Tail(entries))

(* Step 3 of get_final_balances: which accounts are returned *)
is_reported(code, final_balance) ==
    Abs(final_balance) > TOL \/ Prefix1(code) \in {3, 4, 5, 6}

get_final_balances(end_date, journal_types) ==
    LET balances0 == [code \in AccountCodes |->
                          find_account(code).beginning_balance]
        entries == SelectSeq(journal_entries,
                       LAMBDA e : /\ DateFilter(e, end_date)
                                  /\ TypeFilter(e, journal_types))
        balances == process_entries(balances0, entries)
    IN  { [account_code |-> code,
           normal_balance |-> find_account(code).normal_balance,
           amount |-> balances[code]] :
          code \in {c \in AccountCodes : is_reported(c, balances[c])} }

-----------------------------------------------------------------------------
(* Ledger page *)

(* The running balance with every account treated as debit-normal *)
RECURSIVE running_balance_debit_only(_, _, _)
running_balance_debit_only(balance, normal_balance, entries) ==
    IF entries = <<>> THEN balance
    ELSE running_balance_debit_only(
             balance + (Head(entries).debit - Head(entries).credit),
             normal_balance, Tail(entries))

(* The loop of akuntan_ledger over the entries of one account: the balance  *)
(* shown on the last line.                                                  *)
RECURSIVE running_balance(_, _, _)
running_balance(balance, normal_balance, entries) ==
    IF entries = <<>> THEN balance
    ELSE running_balance(
             IF normal_balance = "debit"
             THEN balance + (Head(entries).debit - Head(entries).credit)
             ELSE balance + (Head(entries).credit - Head(entries).debit),
             normal_balance, Tail(entries))

-----------------------------------------------------------------------------
(* Trial balance *)

TrialRow(account_code, debit, credit) ==
    [account_code |-> account_code, debit |-> debit, credit |-> credit]

(* The trial balance with every account taken as debit-normal *)
get_trial_balance_debit_columns(date) ==
    { LET balance == get_ledger_balance(a.account_code, date, {"GJ"})
      IN  TrialRow(a.account_code,
                   IF balance > 0 THEN balance ELSE 0,
                   IF balance < 0 THEN Abs(balance) ELSE 0) :
          a \in { x \in get_all_accounts :
                     \/ 10 * Abs(get_ledger_balance(x.account_code, date,
                                                    {"GJ"})) > TOL
                     \/ x.beginning_balance # 0 } }

(* get_trial_balance: the balance of the general lines of every account     *)
(* that has one above 0.001 or a beginning balance, in the column of its    *)
(* normal side when positive and in the other column when negative.         *)
get_trial_balance(date) ==
    { LET balance == get_ledger_balance(a.account_code, date, {"GJ"})
      IN  IF a.normal_balance = "debit"
          THEN TrialRow(a.account_code,
                        IF balance > 0 THEN balance ELSE 0,
                        IF balance < 0 THEN Abs(balance) ELSE 0)
          ELSE TrialRow(a.account_code,
                        IF balance < 0 THEN Abs(balance) ELSE 0,
                        IF balance > 0 THEN balance ELSE 0) :
          a \in { x \in get_all_accounts :
                     \/ 10 * Abs(get_ledger_balance(x.account_code, date,
                                                    {"GJ"})) > TOL
                     \/ x.beginning_balance # 0 } }

(* The column totals of akuntan_trial_balance *)
RECURSIVE trial_totals(_)
trial_totals(rows) ==
    IF rows = {} THEN [total_debit |-> 0, total_credit |-> 0]
    ELSE LET tb == CHOOSE x \in rows : TRUE
             rest == trial_totals(rows \ {tb})
         IN  [total_debit |-> rest.total_debit + tb.debit,
              total_credit |-> rest.total_credit + tb.credit]

(* The page is built with no date *)
akuntan_trial_balance == trial_totals(get_trial_balance(None))

-----------------------------------------------------------------------------
(* Financial statements *)

generate_income_statement(final_balances) ==
    LET revenue_details == {acc \in final_balances :
                               Prefix1(acc.account_code) = 4}
        expense_details == {acc \in final_balances :
                               Prefix1(acc.account_code) \in {5, 6}}
        total_revenue == SumAmount(revenue_details)
        total_expenses == SumAmount(expense_details)
    IN  [revenue |-> total_revenue,
         expenses |-> total_expenses,
         net_income |-> total_revenue - total_expenses]

generate_balance_sheet(final_balances, net_income) ==
    LET asset_details == {acc \in final_balances :
                             Prefix1(acc.account_code) = 1}
        liability_details == {acc \in final_balances :
                                 Prefix1(acc.account_code) = 2}
        initial_equity_items == {acc \in final_balances :
                                    /\ Prefix1(acc.account_code) = 3
                                    /\ acc.account_code # 31100}
        drawing_items == {acc \in final_balances : acc.account_code = 31100}
        total_assets ==
            SumAmount({acc \in asset_details : acc.normal_balance = "debit"})
            - SumAmount({acc \in asset_details :
                            acc.normal_balance = "credit"})
        total_liabilities == SumAmount(liability_details)
        initial_equity_val == SumAmount(initial_equity_items)
        drawings_val == SumAmount(drawing_items)
    IN  [assets |-> total_assets,
         liabilities |-> total_liabilities,
         equity |-> initial_equity_val + net_income - drawings_val,
         initial_equity_val |-> initial_equity_val,
         drawings_val |-> drawings_val]

generate_financial_reports(end_date) ==
    LET final_balances_for_reports == get_final_balances(end_date, {"GJ", "AJ"})
        income_statement == generate_income_statement(final_balances_for_reports)
        balance_sheet == generate_balance_sheet(final_balances_for_reports,
                                                income_statement.net_income)
    IN  [income_statement |-> income_statement,
         balance_sheet |-> balance_sheet]

-----------------------------------------------------------------------------
(* Worksheet *)

(* ns_map.get(code, 0) over the list get_final_balances returned *)
amount_of(final_balances, code) ==
    IF \E b \in final_balances : b.account_code = code
    THEN (CHOOSE b \in final_balances : b.account_code = code).amount
    ELSE 0

(* get_journal_entries(journal_type, end_date=end_date) *)
get_journal_entries(journal_type, end_date) ==
    SelectSeq(journal_entries,
              LAMBDA e : e.journal_type = journal_type /\ e.date <= end_date)

(* The debit and the credit column of a balance, by the normal balance *)
debet_of(balance, normal_balance) ==
    IF normal_balance = "debit"
    THEN (IF balance > 0 THEN balance ELSE 0)
    ELSE (IF balance < 0 THEN Abs(balance) ELSE 0)

kredit_of(balance, normal_balance) ==
    IF normal_balance = "debit"
    THEN (IF balance < 0 THEN Abs(balance) ELSE 0)
    ELSE (IF balance > 0 THEN balance ELSE 0)

(* The worksheet line of one account *)
worksheet_row(account, end_date) ==
    LET code == account.account_code
        balance_ns == amount_of(get_final_balances(end_date, {"GJ"}), code)
        balance_nsa ==
            amount_of(get_final_balances(end_date, {"GJ", "AJ"}), code)
        adjustments == SelectSeq(get_journal_entries("AJ", end_date),
                                 LAMBDA e : e.account_code = code)
        nsa_debet == debet_of(balance_nsa, account.normal_balance)
        nsa_kredit == kredit_of(balance_nsa, account.normal_balance)
        income == Prefix1(code) \in {4, 5, 6}
    IN  [code |-> code,
         balance_ns |-> balance_ns, balance_nsa |-> balance_nsa,
         ns_debet |-> debet_of(balance_ns, account.normal_balance),
         ns_kredit |-> kredit_of(balance_ns, account.normal_balance),
         adj_debet |-> SumDebit(adjustments),
         adj_kredit |-> SumCredit(adjustments),
         nsa_debet |-> nsa_debet, nsa_kredit |-> nsa_kredit,
         lr_debet |-> IF income THEN nsa_debet ELSE 0,
         lr_kredit |-> IF income THEN nsa_kredit ELSE 0,
         neraca_debet |-> IF income THEN 0 ELSE nsa_debet,
         neraca_kredit |-> IF income THEN 0 ELSE nsa_kredit]

RECURSIVE SumColumn(_, _)
SumColumn(rows, column) ==
    IF rows = {} THEN 0
    ELSE LET w == CHOOSE x \in rows : TRUE
         IN  w[column] + SumColumn(rows \ {w}, column)

(* Net income with the two columns exchanged *)
net_income_reversed(total_lr_debet, total_lr_kredit) ==
    total_lr_debet - total_lr_kredit

(* Step 5: net income from the income-statement columns *)
net_income_of(total_lr_debet, total_lr_kredit) ==
    total_lr_kredit - total_lr_debet

(* GET /akuntan/worksheet on the day end_date: the totals of the ten        *)
(* columns, net income, and the two column pairs of the TOTAL AKHIR line.   *)
akuntan_worksheet(end_date) ==
    LET worksheet_data ==
            { w \in { worksheet_row(a, end_date) : a \in accounts } :
                \/ Abs(w.balance_nsa) > TOL \/ w.adj_debet > 0
                \/ w.adj_kredit > 0 \/ Abs(w.balance_ns) > TOL }
        total_lr_debet == SumColumn(worksheet_data, "lr_debet")
        total_lr_kredit == SumColumn(worksheet_data, "lr_kredit")
        total_neraca_debet == SumColumn(worksheet_data, "neraca_debet")
        total_neraca_kredit == SumColumn(worksheet_data, "neraca_kredit")
        net_income == net_income_of(total_lr_debet, total_lr_kredit)
        profit == IF net_income >= 0 THEN net_income ELSE 0
        loss == IF net_income < 0 THEN Abs(net_income) ELSE 0
    IN  [total_ns_debet |-> SumColumn(worksheet_data, "ns_debet"),
         total_ns_kredit |-> SumColumn(worksheet_data, "ns_kredit"),
         total_adj_debet |-> SumColumn(worksheet_data, "adj_debet"),
         total_adj_kredit |-> SumColumn(worksheet_data, "adj_kredit"),
         total_nsa_debet |-> SumColumn(worksheet_data, "nsa_debet"),
         total_nsa_kredit |-> SumColumn(worksheet_data, "nsa_kredit"),
         total_lr_debet |-> total_lr_debet,
         total_lr_kredit |-> total_lr_kredit,
         total_neraca_debet |-> total_neraca_debet,
         total_neraca_kredit |-> total_neraca_kredit,
         net_income |-> net_income,
         final_lr_debet |-> total_lr_debet + profit,
         final_lr_kredit |-> total_lr_kredit + loss,
         final_neraca_debet |-> total_neraca_debet + loss,
         final_neraca_kredit |-> total_neraca_kredit + profit]

-----------------------------------------------------------------------------
(* Cash-flow statement *)

(* The journal lines dated first_date..end_date, in date order (lines of    *)
(* one date in the order of the store).                                     *)
RECURSIVE entries_in_period(_, _)
entries_in_period(first_date, end_date) ==
    IF first_date > end_date THEN <<>>
    ELSE SelectSeq(journal_entries, LAMBDA e : e.date = first_date)
         \o entries_in_period(first_date + 1, end_date)

cash_movement(entry) == entry.debit - entry.credit

(* The lines of a cash line's transaction (the lines of the period with its *)
(* reference code) that are not on the cash account.                        *)
other_entries(period, trans_id) ==
    SelectSeq(period, LAMBDA e : /\ e.ref_code = trans_id
                                 /\ e.account_code # CASH_ACCOUNT_CODE)

(* The offsetting lines scanned from the last to the first *)
RECURSIVE counterparts_reversed(_, _)
counterparts_reversed(cash_entry, others) ==
    IF others = <<>> THEN <<>>
    ELSE counterparts_reversed(cash_entry, Tail(others))
         \o (IF Abs(cash_movement(cash_entry) + cash_movement(Head(others))) < TOL
             THEN <<Head(others)>> ELSE <<>>)

(* The lines of other_entries whose movement is the opposite of the cash    *)
(* line's; the loop takes the first one and stops.                          *)
counterparts(cash_entry, others) ==
    SelectSeq(others, LAMBDA o :
        Abs(cash_movement(cash_entry) + cash_movement(o)) < TOL)

(* The classification with the drawings account treated as any other       *)
(* equity account                                                           *)
classify_prive_by_sign(counterpart_code, movement) ==
    IF Prefix1(counterpart_code) = 4 THEN "op_in"
    ELSE IF \/ Prefix1(counterpart_code) \in {5, 6}
            \/ (Prefix2(counterpart_code) = 11
                   /\ counterpart_code # CASH_ACCOUNT_CODE)
            \/ Prefix2(counterpart_code) = 21 THEN "op_out"
    ELSE IF Prefix2(counterpart_code) = 12
         THEN (IF movement > 0 THEN "inv_in" ELSE "inv_out")
    ELSE IF Prefix2(counterpart_code) = 22 \/ Prefix1(counterpart_code) = 3
         THEN (IF movement > 0 THEN "fin_in" ELSE "fin_out")
    ELSE "none"

(* The activity and direction a matched cash movement is aggregated under,  *)
(* "none" when no branch of the classification takes it.                    *)
classify(counterpart_code, movement) ==
    IF Prefix1(counterpart_code) = 4 THEN "op_in"
    ELSE IF \/ Prefix1(counterpart_code) \in {5, 6}
            \/ (Prefix2(counterpart_code) = 11
                   /\ counterpart_code # CASH_ACCOUNT_CODE)
            \/ Prefix2(counterpart_code) = 21 THEN "op_out"
    ELSE IF Prefix2(counterpart_code) = 12
         THEN (IF movement > 0 THEN "inv_in" ELSE "inv_out")
    ELSE IF Prefix2(counterpart_code) = 22 \/ Prefix1(counterpart_code) = 3
         THEN (IF counterpart_code = 31100 THEN "fin_out"
               ELSE IF movement > 0 THEN "fin_in" ELSE "fin_out")
    ELSE "none"

(* The sequence without its first element equal to x *)
RECURSIVE remove_first(_, _)
remove_first(entries, x) ==
    IF entries = <<>> THEN <<>>
    ELSE IF Head(entries) = x THEN Tail(entries)
    ELSE <<Head(entries)>> \o remove_first(Tail(entries), x)

(* The aggregation with a matched line taken out of its transaction, so     *)
(* that no later cash line pairs with it                                    *)
RECURSIVE aggregate_consuming(_, _, _)
aggregate_consuming(remaining, period, flow) ==
    IF remaining = <<>> THEN 0
    ELSE LET entry == Head(remaining)
             matches == counterparts(entry,
                            other_entries(period, entry.ref_code))
             matched == /\ entry.account_code = CASH_ACCOUNT_CODE
                        /\ ~(Abs(cash_movement(entry)) < TOL)
                        /\ matches # <<>>
             amount ==
                 IF matched /\ classify(Head(matches).account_code,
                                        cash_movement(entry)) = flow
                 THEN Abs(cash_movement(entry))
                 ELSE 0
         IN  amount + aggregate_consuming(
                          Tail(remaining),
                          IF matched THEN remove_first(period, Head(matches))
                          ELSE period,
                          flow)

(* The amount the cash lines of the period add to the aggregate of one      *)
(* activity and direction.                                                  *)
RECURSIVE aggregate(_, _, _)
aggregate(remaining, period, flow) ==
    IF remaining = <<>> THEN 0
    ELSE LET entry == Head(remaining)
             matches == counterparts(entry,
                            other_entries(period, entry.ref_code))
             amount ==
                 IF /\ entry.account_code = CASH_ACCOUNT_CODE
                    /\ ~(Abs(cash_movement(entry)) < TOL)
                    /\ matches # <<>>
                    /\ classify(Head(matches).account_code,
                                cash_movement(entry)) = flow
                 THEN Abs(cash_movement(entry))
                 ELSE 0
         IN  amount + aggregate(Tail(remaining), period, flow)

generate_cash_flow_statement(start_date, end_date) ==
    LET period == entries_in_period(start_date, end_date)
        beginning_cash == get_ledger_balance(CASH_ACCOUNT_CODE,
                                             start_date - 1, {})
        net_operating == aggregate(period, period, "op_in")
                         - aggregate(period, period, "op_out")
        net_investing == aggregate(period, period, "inv_in")
                         - aggregate(period, period, "inv_out")
        net_financing == aggregate(period, period, "fin_in")
                         - aggregate(period, period, "fin_out")
        net_change == net_operating + net_investing + net_financing
    IN  [operating |-> net_operating,
         investing |-> net_investing,
         financing |-> net_financing,
         net_change |-> net_change,
         beginning_cash |-> beginning_cash,
         ending_cash |-> beginning_cash + net_change]

-----------------------------------------------------------------------------
(* Journal posting *)

Line(date, account_code, debit, credit, journal_type, ref_code) ==
    [date |-> date, account_code |-> account_code, debit |-> debit,
     credit |-> credit, journal_type |-> journal_type, ref_code |-> ref_code]

(* A submitted form line *)
FormLine(account_code, debit, credit) ==
    [account_code |-> account_code, debit |-> debit, credit |-> credit]

(* The request handled last, as the handler received it, and its response:  *)
(* the totals of the submitted lines, whether one of them names an account  *)
(* that is not in the registry, whether the store refused one of the        *)
(* handler's writes, and what the handler reported.                         *)
Request(op, lines, stored, response) ==
    [op |-> op,
     n_lines |-> Len(lines),
     total_debit |-> SumDebit(lines),
     total_credit |-> SumCredit(lines),
     unknown_account |-> \E i \in 1..Len(lines) :
                            lines[i].account_code \notin AccountCodes,
     store_failed |-> \E i \in 1..Len(stored) : ~stored[i],
     response |-> response]

(* supabase.table('journal_entries').insert(data).execute() of one row:     *)
(* the row is appended when the store accepts the write; when it does not   *)
(* (an exception, or no row returned) nothing is written.                   *)
insert_entry(journal, date, account_code, debit, credit, journal_type, ref_code, stored) ==
    IF stored
    THEN Append(journal, Line(date, account_code, debit, credit,
                              journal_type, ref_code))
    ELSE journal

(* Each of the three returns the journal after its insert; the handlers of  *)
(* the journal forms ignore the returned row.                               *)
create_journal_entry(journal, date, account_code, debit, credit, journal_type, ref_code, stored) ==
    insert_entry(journal, date, account_code, debit, credit, journal_type,
                 ref_code, stored)

create_adjustment_entry(journal, date, account_code, debit, credit, ref_code, stored) ==
    insert_entry(journal, date, account_code, debit, credit, "AJ",
                 ref_code, stored)

create_closing_entry(journal, date, account_code, debit, credit, stored) ==
    insert_entry(journal, date, account_code, debit, credit, "CJ",
                 <<"CLOSING", 0>>, stored)

(* POST /akuntan/journal-gj *)
akuntan_journal_gj(date, ref_code, debit_account, debit_amount, credit_account, credit_amount, stored) ==
    LET lines == << FormLine(debit_account, debit_amount, 0),
                    FormLine(credit_account, 0, credit_amount) >>
        rejected == \/ debit_amount <= 0 \/ credit_amount <= 0
                    \/ Abs(debit_amount - credit_amount) > TOL
        after_debit ==
            IF debit_account \in AccountCodes
            THEN create_journal_entry(journal_entries, date, debit_account,
                                      debit_amount, 0, "GJ", ref_code, stored[1])
            ELSE journal_entries
        after_credit ==
            IF credit_account \in AccountCodes
            THEN create_journal_entry(after_debit, date, credit_account,
                                      0, credit_amount, "GJ", ref_code, stored[2])
            ELSE after_debit
    IN  /\ IF rejected
           THEN /\ journal_entries' = journal_entries
                /\ last' = Request("akuntan_journal_gj", lines, stored, "error")
           ELSE /\ journal_entries' = after_credit
                /\ last' = Request("akuntan_journal_gj", lines, stored, "success")
        /\ UNCHANGED <<accounts, inventory_card, assets, tables>>

(* akuntan_journal_gj by its store writes. The two inserts are two requests *)
(* to the store, and another request of the application can be served       *)
(* between them. The first step validates the form and inserts the debit    *)
(* line; the second inserts the credit line and reports success. The        *)
(* handler between its steps is recorded in last with response "pending";   *)
(* the form's credit side is drawn at the step that first uses it, under    *)
(* the validation it has passed.                                            *)

(* The first step inserting both lines at once *)
akuntan_journal_gj_debit_both(date, ref_code, debit_account, debit_amount) ==
    /\ debit_amount > 0
    /\ debit_account \in AccountCodes
    /\ journal_entries' =
           create_journal_entry(
               create_journal_entry(journal_entries, date, debit_account,
                                    debit_amount, 0, "GJ", ref_code, TRUE),
               date, debit_account, 0, debit_amount, "GJ", ref_code, TRUE)
    /\ last' = Request("akuntan_journal_gj",
                       <<FormLine(debit_account, debit_amount, 0)>>,
                       <<TRUE>>, "pending")
    /\ UNCHANGED <<accounts, inventory_card, assets, tables>>

akuntan_journal_gj_debit(date, ref_code, debit_account, debit_amount) ==
    /\ debit_amount > 0
    /\ debit_account \in AccountCodes
    /\ journal_entries' =
           create_journal_entry(journal_entries, date, debit_account,
                                debit_amount, 0, "GJ", ref_code, TRUE)
    /\ last' = Request("akuntan_journal_gj",
                       <<FormLine(debit_account, debit_amount, 0)>>,
                       <<TRUE>>, "pending")
    /\ UNCHANGED <<accounts, inventory_card, assets, tables>>

akuntan_journal_gj_credit(credit_account, credit_amount) ==
    LET debit_line == journal_entries[Len(journal_entries)]
    IN  /\ last.op = "akuntan_journal_gj"
        /\ last.response = "pending"
        /\ credit_amount > 0
        /\ Abs(debit_line.debit - credit_amount) <= TOL
        /\ credit_account \in AccountCodes
        /\ journal_entries' =
               create_journal_entry(journal_entries, debit_line.date,
                                    credit_account, 0, credit_amount, "GJ",
                                    debit_line.ref_code, TRUE)
        /\ last' = Request("akuntan_journal_gj",
                           << FormLine(debit_line.account_code,
                                       debit_line.debit, 0),
                              FormLine(credit_account, 0, credit_amount) >>,
                           <<TRUE, TRUE>>, "success")
        /\ UNCHANGED <<accounts, inventory_card, assets, tables>>

(* The insert loop of akuntan_adjustment_journal over the kept entries *)
RECURSIVE insert_adjustments(_, _, _, _, _)
insert_adjustments(journal, date, entries, ref_code, stored) ==
    IF entries = <<>> THEN journal
    ELSE insert_adjustments(
             create_adjustment_entry(journal, date, Head(entries).account_code,
                                     Head(entries).debit, Head(entries).credit,
                                     ref_code, Head(stored)),
             date, Tail(entries), ref_code, Tail(stored))

(* POST /akuntan/adjustment-journal: lines is the form's filled-in rows     *)
(* (those with an account code), today is the day the form is submitted.    *)
akuntan_adjustment_journal(date, lines, today, stored) ==
    LET entries == SelectSeq(lines, LAMBDA l : l.account_code \in AccountCodes)
        total_debit == SumDebit(entries)
        total_credit == SumCredit(entries)
        ref_code == <<"AJ", today>>
    IN  /\ IF Abs(total_debit - total_credit) > TOL
           THEN /\ journal_entries' = journal_entries
                /\ last' = Request("akuntan_adjustment_journal", lines, stored,
                                   "error")
           ELSE /\ journal_entries' =
                       insert_adjustments(journal_entries, date, entries,
                                          ref_code, stored)
                /\ last' = Request("akuntan_adjustment_journal", lines, stored,
                                   "success")
        /\ UNCHANGED <<accounts, inventory_card, assets, tables>>

(* POST /akuntan/closing-journal *)
akuntan_closing_journal(date, debit_account, debit_amount, credit_account, credit_amount, stored) ==
    LET lines == << FormLine(debit_account, debit_amount, 0),
                    FormLine(credit_account, 0, credit_amount) >>
        rejected == \/ debit_amount <= 0 \/ credit_amount <= 0
                    \/ Abs(debit_amount - credit_amount) > TOL
        after_debit ==
            create_closing_entry(journal_entries, date, debit_account,
                                 debit_amount, 0, stored[1])
        after_credit ==
            create_closing_entry(after_debit, date, credit_account,
                                 0, credit_amount, stored[2])
    IN  /\ IF rejected
           THEN /\ journal_entries' = journal_entries
                /\ last' = Request("akuntan_closing_journal", lines, stored,
                                   "error")
           ELSE /\ journal_entries' = after_credit
                /\ last' = Request("akuntan_closing_journal", lines, stored,
                                   "success")
        /\ UNCHANGED <<accounts, inventory_card, assets, tables>>

(* POST /akuntan/journal-<journal_type>/edit/<entry_id>: the amounts of the *)
(* line are overwritten with what the form holds; entry_id is the position  *)
(* of the line in the journal, and no line is updated when there is none.   *)
akuntan_edit_journal_entry(entry_id, debit, credit) ==
    /\ journal_entries' =
           IF entry_id \in 1..Len(journal_entries)
           THEN [journal_entries EXCEPT ![entry_id] =
                    [@ EXCEPT !.debit = debit, !.credit = credit]]
           ELSE journal_entries
    /\ last' = Request("akuntan_edit_journal_entry",
                       <<FormLine(0, debit, credit)>>, <<>>, "success")
    /\ UNCHANGED <<accounts, inventory_card, assets, tables>>

(* POST /akuntan/journal-gj/edit/<entry_id> *)
akuntan_edit_journal_gj(entry_id, date, account_code, debit, credit, ref_code) ==
    LET lines == <<FormLine(account_code, debit, credit)>>
        rejected == \/ (debit > 0 /\ credit > 0)
                    \/ (debit = 0 /\ credit = 0)
                    \/ account_code \notin AccountCodes
    IN  /\ IF rejected
           THEN /\ journal_entries' = journal_entries
                /\ last' = Request("akuntan_edit_journal_gj", lines, <<>>,
                                   "error")
           ELSE /\ journal_entries' =
                       IF entry_id \in 1..Len(journal_entries)
                       THEN [journal_entries EXCEPT ![entry_id] =
                                [@ EXCEPT !.date = date,
                                          !.account_code = account_code,
                                          !.debit = debit,
                                          !.credit = credit,
                                          !.ref_code = ref_code]]
                       ELSE journal_entries
                /\ last' = Request("akuntan_edit_journal_gj", lines, <<>>,
                                   "success")
        /\ UNCHANGED <<accounts, inventory_card, assets, tables>>

(* DELETE /kasir/delete-transaction/<code>, and the same delete in          *)
(* karyawan_delete_purchase: every journal line with the reference code.    *)
delete_by_ref_code(ref_code) ==
    /\ journal_entries' =
           SelectSeq(journal_entries, LAMBDA e : e.ref_code # ref_code)
    /\ last' = Request("delete_by_ref_code", <<>>, <<>>, "success")
    /\ UNCHANGED <<accounts, inventory_card, assets, tables>>

-----------------------------------------------------------------------------
(* Account registry *)

(* The text of a form field is a sequence of characters *)
Digits == {"0", "1", "2", "3", "4", "5", "6", "7", "8", "9"}

digit_value ==
    ("0" :> 0) @@ ("1" :> 1) @@ ("2" :> 2) @@ ("3" :> 3) @@ ("4" :> 4) @@
    ("5" :> 5) @@ ("6" :> 6) @@ ("7" :> 7) @@ ("8" :> 8) @@ ("9" :> 9)

(* str.strip() *)
RECURSIVE strip(_)
strip(text) ==
    IF text = <<>> THEN text
    ELSE IF Head(text) = " " THEN strip(Tail(text))
    ELSE IF text[Len(text)] = " " THEN strip(SubSeq(text, 1, Len(text) - 1))
    ELSE text

(* re.match(r'^[0-9]-[0-9]{4}$', account_code) on a stripped text *)
matches_code_pattern(text) ==
    /\ Len(text) = 6
    /\ text[1] \in Digits
    /\ text[2] = "-"
    /\ \A i \in 3..6 : text[i] \in Digits

(* The integer that stands for the code "c-dddd" *)
code_of(text) ==
    10000 * digit_value[text[1]] + 1000 * digit_value[text[3]]
    + 100 * digit_value[text[4]] + 10 * digit_value[text[5]]
    + digit_value[text[6]]

(* create_account: the set of rows it inserts, empty when the code is       *)
(* already registered or the store refuses the insert (it returns None).    *)
create_account(account_code, normal_balance, beginning_balance, stored) ==
    IF account_code \in AccountCodes \/ ~stored
    THEN {}
    ELSE {Account(account_code, normal_balance, beginning_balance)}

(* The form of akuntan_accounts saved without looking for the code in the   *)
(* registry                                                                 *)
akuntan_accounts_unchecked(account_code, normal_balance, beginning_balance, stored) ==
    LET text == strip(account_code)
        response(r) == Request("akuntan_accounts", <<>>, <<stored>>, r)
    IN  IF text = <<>> \/ ~matches_code_pattern(text) \/ ~stored
        THEN /\ last' = response("error")
             /\ UNCHANGED <<accounts, journal_entries, inventory_card,
                            assets, tables>>
        ELSE /\ accounts' = accounts \cup
                    {Account(code_of(text), normal_balance, beginning_balance)}
             /\ last' = response("success")
             /\ UNCHANGED <<journal_entries, inventory_card, assets, tables>>

(* POST /akuntan/accounts; name and type are filled in *)
akuntan_accounts(account_code, normal_balance, beginning_balance, stored) ==
    LET text == strip(account_code)
        response(r) == Request("akuntan_accounts", <<>>, <<stored>>, r)
        refused == /\ last' = response("error")
                   /\ UNCHANGED <<accounts, journal_entries, inventory_card,
                                  assets, tables>>
    IN  IF text = <<>> THEN refused
        ELSE IF ~matches_code_pattern(text) THEN refused
        ELSE IF code_of(text) \in AccountCodes THEN refused
        ELSE LET result == create_account(code_of(text), normal_balance,
                                          beginning_balance, stored)
             IN  /\ accounts' = accounts \cup result
                 /\ last' = response(IF result # {} THEN "success"
                                     ELSE "error")
                 /\ UNCHANGED <<journal_entries, inventory_card, assets,
                                tables>>

(* The lines of the journal on an account *)
lines_of(journal, account_code) ==
    SelectSeq(journal, LAMBDA e : e.account_code = account_code)

(* The delete of akuntan_delete_account without the cascade *)
akuntan_delete_account_no_cascade(account_code, stored) ==
    LET response(r) == Request("akuntan_delete_account",
                               lines_of(journal_entries, account_code),
                               stored, r)
    IN  IF ~stored[2]
        THEN /\ last' = response("error")
             /\ UNCHANGED <<accounts, journal_entries, inventory_card,
                            assets, tables>>
        ELSE /\ accounts' = {a \in accounts : a.account_code # account_code}
             /\ last' = response("success")
             /\ UNCHANGED <<journal_entries, inventory_card, assets, tables>>

(* DELETE /akuntan/accounts/delete/<account_code>: the delete of the        *)
(* journal lines and the delete of the account are two store writes, and    *)
(* an exception of either ends the handler with success False.              *)
akuntan_delete_account(account_code, stored) ==
    LET all_journals == lines_of(journal_entries, account_code)
        journal_count == Len(all_journals)
        response(r) == Request("akuntan_delete_account", all_journals,
                               stored, r)
        after_cascade ==
            SelectSeq(journal_entries,
                      LAMBDA e : e.account_code # account_code)
    IN  IF journal_count > 0 /\ ~stored[1]
        THEN /\ last' = response("error")
             /\ UNCHANGED <<accounts, journal_entries, inventory_card,
                            assets, tables>>
        ELSE IF ~stored[2]
        THEN /\ journal_entries' = after_cascade
             /\ last' = response("error")
             /\ UNCHANGED <<accounts, inventory_card, assets, tables>>
        ELSE /\ journal_entries' = after_cascade
             /\ accounts' = {a \in accounts : a.account_code # account_code}
             /\ last' = response("success")
             /\ UNCHANGED <<inventory_card, assets, tables>>

-----------------------------------------------------------------------------
(* Fixed assets *)

(* The row create_asset inserts *)
Asset(id, cost, salvage_value) ==
    [id |-> id, cost |-> cost, salvage_value |-> salvage_value,
     accumulated_depreciation |-> 0, book_value |-> cost - salvage_value]

(* create_asset: refused when the asset code is in use or the store does    *)
(* not return the row. The model names an asset by its id and takes the     *)
(* asset code to be the id.                                                 *)
create_asset(asset_code, cost, salvage_value, stored) ==
    LET response(r) == Request("create_asset", <<>>, <<stored>>, r)
    IN  IF (\E asset \in assets : asset.id = asset_code) \/ ~stored
        THEN /\ last' = response("error")
             /\ UNCHANGED <<accounts, journal_entries, inventory_card,
                            assets, tables>>
        ELSE /\ assets' = assets \cup {Asset(asset_code, cost, salvage_value)}
             /\ last' = response("success")
             /\ UNCHANGED <<accounts, journal_entries, inventory_card, tables>>

(* update_asset: the select of the asset raises when there is none; the     *)
(* update writes the new cost and salvage value and sets book_value to the  *)
(* cost.                                                                    *)
update_asset(asset_id, cost, salvage_value, stored) ==
    LET response(r) == Request("update_asset", <<>>, <<stored>>, r)
    IN  IF (\A asset \in assets : asset.id # asset_id) \/ ~stored
        THEN /\ last' = response("error")
             /\ UNCHANGED <<accounts, journal_entries, inventory_card,
                            assets, tables>>
        ELSE /\ assets' = { IF asset.id = asset_id
                            THEN [asset EXCEPT !.cost = cost,
                                               !.salvage_value = salvage_value,
                                               !.book_value = cost]
                            ELSE asset : asset \in assets }
             /\ last' = response("success")
             /\ UNCHANGED <<accounts, journal_entries, inventory_card, tables>>

(* record_depreciation_entry, called by the record_depreciation form: the   *)
(* debit line, the credit line and the update of the asset are three store  *)
(* writes; the function returns False at the first that fails. The days of  *)
(* the model fall in one month, so the reference code is DEP<id>.           *)
record_depreciation_entry(asset_id, depreciation_amount, period_date, stored) ==
    LET lines == << FormLine(61400, depreciation_amount, 0),
                    FormLine(12210, 0, depreciation_amount) >>
        ref_code == <<"DEP", asset_id>>
        after_debit ==
            create_adjustment_entry(journal_entries, period_date, 61400,
                                    depreciation_amount, 0, ref_code, stored[1])
        after_credit ==
            create_adjustment_entry(after_debit, period_date, 12210,
                                    0, depreciation_amount, ref_code, stored[2])
        response(ok) ==
            Request("record_depreciation_entry", lines, stored,
                    IF ok THEN "success" ELSE "error")
    IN  IF \A asset \in assets : asset.id # asset_id
        THEN /\ last' = response(FALSE)
             /\ UNCHANGED <<accounts, journal_entries, inventory_card,
                            assets, tables>>
        ELSE IF ~stored[1]
        THEN /\ last' = response(FALSE)
             /\ UNCHANGED <<accounts, journal_entries, inventory_card,
                            assets, tables>>
        ELSE IF ~stored[2]
        THEN /\ journal_entries' = after_debit
             /\ last' = response(FALSE)
             /\ UNCHANGED <<accounts, inventory_card, assets, tables>>
        ELSE /\ journal_entries' = after_credit
             /\ assets' =
                    IF stored[3]
                    THEN { IF asset.id = asset_id
                           THEN [asset EXCEPT
                                    !.accumulated_depreciation =
                                        @ + depreciation_amount,
                                    !.book_value =
                                        asset.cost
                                        - (asset.accumulated_depreciation
                                           + depreciation_amount)]
                           ELSE asset : asset \in assets }
                    ELSE assets
             /\ last' = response(stored[3])
             /\ UNCHANGED <<accounts, inventory_card, tables>>

-----------------------------------------------------------------------------
(* Inventory card *)

(* A row of inventory_card; rows are kept in the order of their ids. *)
Row(date, product_name, doc_no, purchase_quantity, purchase_amount, sales_quantity, sales_amount, balance_quantity, balance_unit_price, balance_amount) ==
    [date |-> date, product_name |-> product_name, doc_no |-> doc_no,
     purchase_quantity |-> purchase_quantity,
     purchase_amount |-> purchase_amount,
     sales_quantity |-> sales_quantity, sales_amount |-> sales_amount,
     balance_quantity |-> balance_quantity,
     balance_unit_price |-> balance_unit_price,
     balance_amount |-> balance_amount]

Item(name, quantity, subtotal) ==
    [name |-> name, quantity |-> quantity, subtotal |-> subtotal]

has_inventory_entry(card, product_name) ==
    \E i \in 1..Len(card) : card[i].product_name = product_name

(* The row of the product with the highest id; callers test                 *)
(* has_inventory_entry where the code tests the result for None.            *)
get_last_inventory_entry(card, product_name) ==
    LET rows == SelectSeq(card, LAMBDA r : r.product_name = product_name)
    IN  rows[Len(rows)]

(* (new_balance_amount / new_balance_qty) if new_balance_qty > 0 else 0 *)
new_avg_price(new_balance_amount, new_balance_qty) ==
    IF new_balance_qty > 0 THEN new_balance_amount \div new_balance_qty ELSE 0

(* The bulk insert of the lines of one transaction *)
RECURSIVE insert_lines(_, _, _, _)
insert_lines(journal, date, lines, ref_code) ==
    IF lines = <<>> THEN journal
    ELSE insert_lines(
             Append(journal, Line(date, Head(lines).account_code,
                                  Head(lines).debit, Head(lines).credit,
                                  "GJ", ref_code)),
             date, Tail(lines), ref_code)

(* The lines of a cash sale with the inventory relieved at the sale price   *)
sale_lines_at_sale_price(total_amount, total_hpp) ==
    << FormLine(11000, total_amount, 0), FormLine(41000, 0, total_amount),
       FormLine(51000, total_amount, 0), FormLine(11200, 0, total_amount) >>

(* The four lines of a cash sale under the perpetual method *)
sale_lines(total_amount, total_hpp) ==
    << FormLine(11000, total_amount, 0), FormLine(41000, 0, total_amount),
       FormLine(51000, total_hpp, 0), FormLine(11200, 0, total_hpp) >>

purchase_account(item_type) ==
    CASE item_type = "bibit" -> 11200
      [] item_type = "perlengkapan" -> 11300
      [] item_type = "peralatan" -> 12200
      [] OTHER -> None

process_purchase(date, item_type, item_name, quantity, unit_price, total_amount, today) ==
    LET purchase_id == tables.purchases + 1
        ref_code == <<"BL", <<today, purchase_id>>>>
        lines == << FormLine(purchase_account(item_type), total_amount, 0),
                    FormLine(11000, 0, total_amount) >>
        known == has_inventory_entry(inventory_card, item_name)
        last_entry == get_last_inventory_entry(inventory_card, item_name)
        last_qty == IF known THEN last_entry.balance_quantity ELSE 0
        last_balance_amount == IF known THEN last_entry.balance_amount ELSE 0
        new_balance_qty == last_qty + quantity
        new_balance_amount == last_balance_amount + total_amount
    IN  /\ tables' = [tables EXCEPT !.purchases = purchase_id,
                                   !.purchase_dates = Append(@, date)]
        /\ IF purchase_account(item_type) = None
           THEN /\ last' = Request("process_purchase", <<>>, <<>>, "error")
                /\ UNCHANGED <<journal_entries, inventory_card>>
           ELSE /\ journal_entries' =
                       insert_lines(journal_entries, date, lines, ref_code)
                /\ inventory_card' =
                       IF item_type = "bibit"
                       THEN Append(inventory_card,
                                Row(date, item_name, ref_code, quantity,
                                    total_amount,
                                    0, 0, new_balance_qty,
                                    new_avg_price(new_balance_amount,
                                                  new_balance_qty),
                                    new_balance_amount))
                       ELSE inventory_card
                /\ last' = Request("process_purchase", lines, <<>>, "success")
        /\ UNCHANGED <<accounts, assets>>

(* The journal lines karyawan_edit_purchase posts for an item type: the     *)
(* mapping falls back to supplies for a type it does not know.              *)
edit_purchase_account(item_type) ==
    CASE item_type = "bibit" -> 11200
      [] item_type = "perlengkapan" -> 11300
      [] item_type = "peralatan" -> 12200
      [] OTHER -> 11300

(* POST /karyawan/purchase/edit/<purchase_id> with a valid form: the        *)
(* purchase row is updated, the journal lines under the reference code      *)
(* rebuilt from the date the row held are deleted, a debit and a cash       *)
(* credit for the new total are inserted under that code, and for seed the  *)
(* card row of the code is replaced by a row after the product's last row.  *)
karyawan_edit_purchase(purchase_id, date, item_type, item_name, quantity, unit_price) ==
    LET total_amount == quantity * unit_price
        old_date == tables.purchase_dates[purchase_id]
        ref_code == <<"BL", <<old_date, purchase_id>>>>
        lines == << FormLine(edit_purchase_account(item_type), total_amount, 0),
                    FormLine(11000, 0, total_amount) >>
        voided == SelectSeq(journal_entries, LAMBDA e : e.ref_code # ref_code)
        card == SelectSeq(inventory_card, LAMBDA r : r.doc_no # ref_code)
        known == has_inventory_entry(card, item_name)
        last_entry == get_last_inventory_entry(card, item_name)
        new_balance_qty ==
            (IF known THEN last_entry.balance_quantity ELSE 0) + quantity
        new_balance_amount ==
            (IF known THEN last_entry.balance_amount ELSE 0) + total_amount
    IN  /\ purchase_id \in 1..Len(tables.purchase_dates)
        /\ quantity > 0
        /\ unit_price > 0
        /\ tables' = [tables EXCEPT !.purchase_dates[purchase_id] = date]
        /\ journal_entries' = insert_lines(voided, date, lines, ref_code)
        /\ inventory_card' =
               IF item_type = "bibit"
               THEN Append(card,
                        Row(date, item_name, ref_code, quantity, total_amount,
                            0, 0, new_balance_qty,
                            new_avg_price(new_balance_amount, new_balance_qty),
                            new_balance_amount))
               ELSE inventory_card
        /\ last' = Request("karyawan_edit_purchase", lines, <<>>, "success")
        /\ UNCHANGED <<accounts, assets>>

process_sale(date, item_name, quantity, unit_price, total_amount) ==
    LET sale_id == tables.sales + 1
        ref_code == <<"JL", sale_id>>
        known == has_inventory_entry(inventory_card, item_name)
        last_entry == get_last_inventory_entry(inventory_card, item_name)
        hpp_total_amount == quantity * last_entry.balance_unit_price
        lines == sale_lines(total_amount, hpp_total_amount)
        new_balance_qty == last_entry.balance_quantity - quantity
        new_balance_amount == last_entry.balance_amount - hpp_total_amount
    IN  /\ tables' = [tables EXCEPT !.sales = sale_id]
        /\ IF ~known \/ last_entry.balance_quantity < quantity
           THEN /\ last' = Request("process_sale", <<>>, <<>>, "error")
                /\ UNCHANGED <<journal_entries, inventory_card>>
           ELSE /\ journal_entries' =
                       insert_lines(journal_entries, date, lines, ref_code)
                /\ inventory_card' =
                       Append(inventory_card,
                           Row(date, item_name, ref_code, 0, 0, quantity,
                               hpp_total_amount, new_balance_qty,
                               new_avg_price(new_balance_amount,
                                             new_balance_qty),
                               new_balance_amount))
                /\ last' = Request("process_sale", lines, <<>>, "success")
        /\ UNCHANGED <<accounts, assets>>

RECURSIVE SumSubtotal(_)
SumSubtotal(items) ==
    IF items = <<>> THEN 0
    ELSE Head(items).subtotal + SumSubtotal(Tail(items))

(* Step 0 of create_transaction: every item is compared with the balance of *)
(* the last row of its product, as the card stands before the sale.         *)
stock_sufficient(card, items) ==
    \A i \in 1..Len(items) :
        LET current_stock ==
                IF has_inventory_entry(card, items[i].name)
                THEN get_last_inventory_entry(card, items[i].name).balance_quantity
                ELSE 0
        IN  ~(current_stock < items[i].quantity)

(* The loop of create_transaction over the items: each item reads the last  *)
(* row of its product, which may be the row an earlier item of the same     *)
(* cart has just inserted, and inserts its own. The result is the card, the *)
(* total cost of goods sold, and whether an item had no row to read.        *)
RECURSIVE sell_items(_, _, _, _, _)
sell_items(card, items, transaction_code, total_hpp, today) ==
    IF items = <<>>
    THEN [card |-> card, total_hpp |-> total_hpp, failed |-> FALSE]
    ELSE IF ~has_inventory_entry(card, Head(items).name)
    THEN [card |-> card, total_hpp |-> total_hpp, failed |-> TRUE]
    ELSE LET item == Head(items)
             last_entry == get_last_inventory_entry(card, item.name)
             hpp_per_unit == last_entry.balance_unit_price
             item_hpp == item.quantity * hpp_per_unit
             new_balance_qty == last_entry.balance_quantity - item.quantity
             new_balance_amount == last_entry.balance_amount - item_hpp
         IN  sell_items(
                 Append(card, Row(today, item.name, transaction_code, 0, 0,
                                  item.quantity, item_hpp, new_balance_qty,
                                  hpp_per_unit, new_balance_amount)),
                 Tail(items), transaction_code, total_hpp + item_hpp,
                 today)

(* create_transaction, as called by kasir_process_transaction: op is the    *)
(* name of the calling handler and today the day of the call.               *)
create_transaction(op, transaction_code, items, total_amount, today) ==
    LET sold == sell_items(inventory_card, items, transaction_code, 0, today)
        lines == sale_lines(total_amount, sold.total_hpp)
    IN  IF ~stock_sufficient(inventory_card, items)
        THEN /\ last' = Request(op, <<>>, <<>>, "error")
             /\ UNCHANGED <<accounts, journal_entries, inventory_card,
                            assets, tables>>
        ELSE /\ tables' = [tables EXCEPT !.transactions = @ + 1]
             /\ inventory_card' = sold.card
             /\ IF sold.failed
                THEN /\ last' = Request(op, <<>>, <<>>, "error")
                     /\ UNCHANGED journal_entries
                ELSE /\ journal_entries' =
                            insert_lines(journal_entries, today, lines,
                                         transaction_code)
                     /\ last' = Request(op, lines, <<>>, "success")
             /\ UNCHANGED <<accounts, assets>>

(* POST /kasir/process: items is the cart as the request carries it. The    *)
(* transaction code is the time of the request, one request per second.     *)
kasir_process_transaction(items, today) ==
    IF items = <<>>
    THEN /\ last' = Request("kasir_process_transaction", <<>>, <<>>, "error")
         /\ UNCHANGED <<accounts, journal_entries, inventory_card,
                        assets, tables>>
    ELSE create_transaction("kasir_process_transaction",
                            <<"TRX", tables.transactions + 1>>, items,
                            SumSubtotal(items), today)

(* The two accounts of the other transaction types of the manual form *)
transaction_mapping(transaction_type) ==
    CASE transaction_type = "pembelian_perlengkapan" -> <<11300, 11000>>
      [] transaction_type = "pembelian_peralatan" -> <<12200, 11000>>
      [] transaction_type = "pembayaran_gaji" -> <<61300, 11000>>
      [] transaction_type = "pembayaran_listrik" -> <<61000, 11000>>
      [] transaction_type = "penerimaan_kas" -> <<11000, 41201>>
      [] OTHER -> <<>>

(* POST /akuntan/manual-transaction. quantity and price are the form's      *)
(* fields of a sale or a purchase of fish, amount the field of the other    *)
(* types; the reference code is the time of the request.                    *)
akuntan_manual_transaction(transaction_type, date, quantity, price, amount, now) ==
    LET ref_code == <<"MT", now>>
        known == has_inventory_entry(inventory_card, "Ikan Mujair")
        last_entry == get_last_inventory_entry(inventory_card, "Ikan Mujair")
        rejected ==
            /\ last' = Request("akuntan_manual_transaction", <<>>, <<>>, "error")
            /\ UNCHANGED <<accounts, journal_entries, inventory_card,
                           assets, tables>>
        posted(lines, card) ==
            /\ journal_entries' =
                   insert_lines(journal_entries, date, lines, ref_code)
            /\ inventory_card' = card
            /\ last' = Request("akuntan_manual_transaction", lines, <<>>,
                               "success")
            /\ UNCHANGED <<accounts, assets, tables>>
    IN  IF transaction_type = "penjualan_ikan"
        THEN IF \/ quantity <= 0 \/ price <= 0
                \/ ~known \/ last_entry.balance_quantity = 0
                \/ last_entry.balance_quantity < quantity
             THEN rejected
             ELSE LET total_hpp == quantity * last_entry.balance_unit_price
                      new_balance_qty == last_entry.balance_quantity - quantity
                      new_balance_amount == last_entry.balance_amount - total_hpp
                  IN  posted(sale_lines(quantity * price, total_hpp),
                          Append(inventory_card,
                              Row(date, "Ikan Mujair", ref_code, 0, 0, quantity,
                                  total_hpp, new_balance_qty,
                                  new_avg_price(new_balance_amount,
                                                new_balance_qty),
                                  new_balance_amount)))
        ELSE IF transaction_type = "pembelian_bibit"
        THEN IF quantity <= 0 \/ price <= 0
             THEN rejected
             ELSE LET total_pembelian == quantity * price
                      last_qty == IF known THEN last_entry.balance_quantity
                                  ELSE 0
                      last_balance_amount ==
                          IF known THEN last_entry.balance_amount ELSE 0
                      new_balance_qty == last_qty + quantity
                      new_balance_amount == last_balance_amount + total_pembelian
                  IN  posted(<< FormLine(11200, total_pembelian, 0),
                                FormLine(11000, 0, total_pembelian) >>,
                          Append(inventory_card,
                              Row(date, "Ikan Mujair", ref_code, quantity,
                                  total_pembelian, 0, 0, new_balance_qty,
                                  new_avg_price(new_balance_amount,
                                                new_balance_qty),
                                  new_balance_amount)))
        ELSE IF amount <= 0 \/ transaction_mapping(transaction_type) = <<>>
        THEN rejected
        ELSE posted(<< FormLine(transaction_mapping(transaction_type)[1],
                                amount, 0),
                       FormLine(transaction_mapping(transaction_type)[2],
                                0, amount) >>,
                    inventory_card)

(* The ids of the card's rows in the order of .order('date').order('id');   *)
(* a row's id is its position in the card.                                  *)
RECURSIVE ids_by_date(_, _)
ids_by_date(card, first_date) ==
    IF first_date > MaxDate THEN <<>>
    ELSE SelectSeq([i \in 1..Len(card) |-> i],
                   LAMBDA i : card[i].date = first_date)
         \o ids_by_date(card, first_date + 1)

(* The loop of recalculate_inventory_balances with the running balance      *)
(* restarted from the balance of the first row instead of zero.             *)
RECURSIVE recalculate_rows_carried(_, _, _, _)
recalculate_rows_carried(card, ids, balance_qty, balance_amount) ==
    IF ids = <<>> THEN card
    ELSE LET entry == card[Head(ids)]
             carried_qty == IF balance_qty = 0 THEN card[1].balance_quantity
                            ELSE balance_qty
             new_qty == carried_qty + entry.purchase_quantity
                        - entry.sales_quantity
             new_amount == balance_amount + entry.purchase_amount
                           - entry.sales_amount
         IN  recalculate_rows_carried(
                 [card EXCEPT ![Head(ids)] =
                     [entry EXCEPT !.balance_quantity = new_qty,
                                   !.balance_amount = new_amount,
                                   !.balance_unit_price =
                                       new_avg_price(new_amount, new_qty)]],
                 Tail(ids), new_qty, new_amount)

(* The loop of recalculate_inventory_balances: one running balance over the *)
(* rows of all products, each row updated in place.                         *)
RECURSIVE recalculate_rows(_, _, _, _)
recalculate_rows(card, ids, balance_qty, balance_amount) ==
    IF ids = <<>> THEN card
    ELSE LET entry == card[Head(ids)]
             new_qty == balance_qty + entry.purchase_quantity
                        - entry.sales_quantity
             new_amount == balance_amount + entry.purchase_amount
                           - entry.sales_amount
         IN  recalculate_rows(
                 [card EXCEPT ![Head(ids)] =
                     [entry EXCEPT !.balance_quantity = new_qty,
                                   !.balance_amount = new_amount,
                                   !.balance_unit_price =
                                       new_avg_price(new_amount, new_qty)]],
                 Tail(ids), new_qty, new_amount)

(* The card after recalculate_inventory_balances *)
recalculated(card) == recalculate_rows(card, ids_by_date(card, 1), 0, 0)

recalculate_inventory_balances ==
    /\ inventory_card' = recalculated(inventory_card)
    /\ last' = Request("recalculate_inventory_balances", <<>>, <<>>, "success")
    /\ UNCHANGED <<accounts, journal_entries, assets, tables>>

(* The card without the row of the id; the other rows keep their order *)
remove_row(card, card_id) ==
    IF card_id \in 1..Len(card)
    THEN [i \in 1..(Len(card) - 1) |->
             IF i < card_id THEN card[i] ELSE card[i + 1]]
    ELSE card

(* delete_inventory_card: the row is deleted and the balances of the rows   *)
(* that remain are recalculated.                                            *)
delete_inventory_card(card_id) ==
    /\ inventory_card' = recalculated(remove_row(inventory_card, card_id))
    /\ last' = Request("delete_inventory_card", <<>>, <<>>, "success")
    /\ UNCHANGED <<accounts, journal_entries, assets, tables>>

-----------------------------------------------------------------------------
(* The store with a chart of accounts and no other row *)
InitStore(chart) ==
    /\ accounts = chart
    /\ journal_entries = <<>>
    /\ inventory_card = <<>>
    /\ assets = {}
    /\ tables = [sales |-> 0, purchases |-> 0, transactions |-> 0,
                 purchase_dates |-> <<>>]
    /\ last = Request("start", <<>>, <<>>, "success")

(* Initial state: the application has started on an empty store and         *)
(* init_default_accounts has created the chart of accounts.                 *)
Init == InitStore(default_accounts)

AllStored(n) == [i \in 1..n |-> TRUE]
StoreOutcomes(n) == [1..n -> BOOLEAN]
Room(n) == Len(journal_entries) + n <= MaxLines
RefCodesInUse == {journal_entries[i].ref_code : i \in 1..Len(journal_entries)}

-----------------------------------------------------------------------------
(* SpecPost: the journal forms and void on the default chart, the store     *)
(* accepting every write. The forms carry registered accounts and a code    *)
(* that is not in the registry, and amounts that are equal, that differ by  *)
(* 0.01, and that differ by more. No account 1-9999 is ever registered.     *)
PostAmounts ==
    { <<MaxAmount, MaxAmount>>,
      <<MaxAmount, MaxAmount - 1>>,
      <<MaxAmount + 1, MaxAmount - 1>> }

PostPairs == { <<11000, 41000>>, <<19999, 41000>> }

AdjustmentForms ==
    { << FormLine(11000, MaxAmount, 0), FormLine(41000, 0, MaxAmount) >>,
      << FormLine(11000, MaxAmount, 0), FormLine(41000, 0, MaxAmount),
         FormLine(19999, MaxAmount, 0) >>,
      << FormLine(11000, MaxAmount + 1, 0),
         FormLine(41000, 0, MaxAmount - 1) >>,
      << FormLine(19999, MaxAmount, 0), FormLine(19999, 0, MaxAmount) >>,
      << >> }

PostOps ==
    {"akuntan_journal_gj", "akuntan_adjustment_journal",
     "akuntan_closing_journal"}

PostGJ ==
    /\ Room(2)
    /\ \E amounts \in PostAmounts, pair \in PostPairs :
           akuntan_journal_gj(1, <<"GJ", 0>>, pair[1], amounts[1],
                              pair[2], amounts[2], AllStored(2))

PostAJ ==
    \E lines \in AdjustmentForms :
        /\ Room(Len(lines))
        /\ akuntan_adjustment_journal(1, lines, 1, AllStored(Len(lines)))

PostCJ ==
    /\ Room(2)
    /\ \E amounts \in PostAmounts, pair \in PostPairs :
           akuntan_closing_journal(1, pair[1], amounts[1],
                                   pair[2], amounts[2], AllStored(2))

PostVoid ==
    \E ref_code \in RefCodesInUse : delete_by_ref_code(ref_code)

NextPost == PostGJ \/ PostAJ \/ PostCJ \/ PostVoid

SpecPost == Init /\ [][NextPost]_vars

(* C1: in every state reached by postings that reported success and by      *)
(* voids, the lines of every reference code in the journal have total debit *)
(* equal to total credit within 0.01.                                       *)
C1_RefCodesBalanced ==
    \A ref_code \in RefCodesInUse :
        LET lines == SelectSeq(journal_entries,
                               LAMBDA e : e.ref_code = ref_code)
        IN  Abs(SumDebit(lines) - SumCredit(lines)) <= TOL

(* C2: a general, adjustment or closing post whose total debit differs from *)
(* its total credit by more than 0.01 is rejected and leaves the journal as *)
(* it was.                                                                  *)
C2_UnbalancedRejected ==
    [][ (/\ last'.op \in PostOps
         /\ Abs(last'.total_debit - last'.total_credit) > TOL)
        => (/\ last'.response = "error"
            /\ journal_entries' = journal_entries) ]_vars

(* C3: a post with a line whose account code is not in the registry is      *)
(* rejected and writes no line.                                             *)
C3_UnknownAccountRejected ==
    [][ (last'.op \in PostOps /\ last'.unknown_account)
        => (/\ last'.response = "error"
            /\ journal_entries' = journal_entries) ]_vars

(* C19: an adjustment post that reports success has kept at least one line: *)
(* a form with no filled-in row, or whose rows all name accounts that are   *)
(* not registered, is not reported as saved.                                *)
C19_EmptyPostRejected ==
    [][ ( /\ last'.op = "akuntan_adjustment_journal"
          /\ last'.response = "success" )
        => Len(journal_entries') > Len(journal_entries) ]_vars

-----------------------------------------------------------------------------
(* SpecStore: postings against a store that may refuse any single write.    *)
(* The registry is the default chart and one asset has been registered.     *)
InitStoreAsset ==
    /\ accounts = default_accounts
    /\ journal_entries = <<>>
    /\ inventory_card = <<>>
    /\ assets = {Asset(1, MaxAmount, 0)}
    /\ tables = [sales |-> 0, purchases |-> 0, transactions |-> 0,
                 purchase_dates |-> <<>>]
    /\ last = Request("start", <<>>, <<>>, "success")

StoreGJ ==
    /\ Room(2)
    /\ \E amount \in Amounts, stored \in StoreOutcomes(2) :
           akuntan_journal_gj(1, <<"GJ", 0>>, 11000, amount,
                              41000, amount, stored)

StoreAJ ==
    /\ Room(2)
    /\ \E amount \in Amounts, stored \in StoreOutcomes(2) :
           akuntan_adjustment_journal(1,
               << FormLine(61000, amount, 0), FormLine(11000, 0, amount) >>,
               1, stored)

StoreCJ ==
    /\ Room(2)
    /\ \E amount \in Amounts, stored \in StoreOutcomes(2) :
           akuntan_closing_journal(1, 41000, amount, 31000, amount, stored)

StoreDepreciation ==
    /\ Room(2)
    /\ \E amount \in Amounts, stored \in StoreOutcomes(3) :
           record_depreciation_entry(1, amount, 1, stored)

NextStore == StoreGJ \/ StoreAJ \/ StoreCJ \/ StoreDepreciation

SpecStore == InitStoreAsset /\ [][NextStore]_vars

(* C4: when a store write of a posting fails, none of the posting's rows    *)
(* remains in the journal.                                                  *)
C4_AllOrNothing ==
    [][ last'.store_failed => journal_entries' = journal_entries ]_vars

(* C18: a posting during which the store refused an insert does not report *)
(* success.                                                                 *)
C18_StoreFailureReported ==
    [][ last'.store_failed => last'.response # "success" ]_vars

-----------------------------------------------------------------------------
(* SpecLedger: the inputs of balance aggregation. The registry holds the   *)
(* cash account (debit-normal) and the sales account (credit-normal) of the *)
(* default chart, each with a beginning balance of 0 or MaxAmount, as the   *)
(* accounts pages leave it after the other accounts are deleted and the     *)
(* beginning balances edited; the journal grows by balanced postings of the *)
(* three journal classes between the two accounts, the store accepting      *)
(* every write.                                                             *)
InitLedger ==
    \E cash_balance \in {0, MaxAmount}, sales_balance \in {0, MaxAmount} :
        InitStore({ Account(11000, "debit", cash_balance),
                    Account(41000, "credit", sales_balance) })

LedgerPairs == { <<11000, 41000>>, <<41000, 11000>> }

LedgerGJ ==
    /\ Room(2)
    /\ \E date \in Dates, amount \in Amounts, pair \in LedgerPairs :
           akuntan_journal_gj(date, <<"GJ", 0>>, pair[1], amount,
                              pair[2], amount, AllStored(2))

LedgerAJ ==
    /\ Room(2)
    /\ \E date \in Dates, amount \in Amounts, pair \in LedgerPairs :
           akuntan_adjustment_journal(date,
               << FormLine(pair[1], amount, 0),
                  FormLine(pair[2], 0, amount) >>, 1, AllStored(2))

LedgerCJ ==
    /\ Room(2)
    /\ \E date \in Dates, amount \in Amounts, pair \in LedgerPairs :
           akuntan_closing_journal(date, pair[1], amount,
                                   pair[2], amount, AllStored(2))

NextLedger == LedgerGJ \/ LedgerAJ \/ LedgerCJ

SpecLedger == InitLedger /\ [][NextLedger]_vars

-----------------------------------------------------------------------------
(* Claims on balance aggregation *)

AsOfDates == Dates \cup {None}
ClassSets == SUBSET JournalTypes

(* The journal lines of an account that a balance as of end_date over the   *)
(* classes journal_types counts: dated on or before end_date, of one of     *)
(* the classes; every class when no class set is given.                     *)
CountedLines(account_code, end_date, journal_types) ==
    { i \in 1..Len(journal_entries) :
        /\ journal_entries[i].account_code = account_code
        /\ (end_date = None \/ journal_entries[i].date <= end_date)
        /\ (journal_types = {} \/
              journal_entries[i].journal_type \in journal_types) }

RECURSIVE NetDebit(_)
NetDebit(indices) ==
    IF indices = {} THEN 0
    ELSE LET i == CHOOSE j \in indices : TRUE
         IN  journal_entries[i].debit - journal_entries[i].credit
               + NetDebit(indices \ {i})

ExpectedBalance(a, end_date, journal_types) ==
    LET net == NetDebit(CountedLines(a.account_code, end_date, journal_types))
    IN  IF a.normal_balance = "debit"
        THEN a.beginning_balance + net
        ELSE a.beginning_balance - net

(* C5: for every registered account, as-of date and set of journal classes, *)
(* get_ledger_balance is the beginning balance plus debits minus credits    *)
(* (debit-normal) or credits minus debits (credit-normal) of exactly the    *)
(* account's lines dated on or before the as-of date whose class is in the  *)
(* set, all classes counting when no set is given.                          *)
C5_BalanceOf ==
    \A a \in accounts, end_date \in AsOfDates, journal_types \in ClassSets :
        get_ledger_balance(a.account_code, end_date, journal_types)
          = ExpectedBalance(a, end_date, journal_types)

(* C5 witness: a credit-normal account with a beginning balance has a line  *)
(* after the as-of date and a line of a class outside the set, and its      *)
(* balance differs from the balance over all lines.                         *)
C5_Witness ==
    \E a \in accounts :
        /\ a.normal_balance = "credit"
        /\ a.beginning_balance > 0
        /\ \E i, j \in 1..Len(journal_entries) :
              /\ journal_entries[i].account_code = a.account_code
              /\ journal_entries[j].account_code = a.account_code
              /\ journal_entries[i].date > 1
              /\ journal_entries[j].date <= 1
              /\ journal_entries[j].journal_type = "AJ"
        /\ get_ledger_balance(a.account_code, 1, {"GJ"})
             # get_ledger_balance(a.account_code, None, {})

(* C6: every entry returned by get_final_balances carries the amount that   *)
(* get_ledger_balance computes for its account on the same state, as-of     *)
(* date and class set.                                                      *)
C6_BatchedAgrees ==
    \A end_date \in AsOfDates, journal_types \in ClassSets :
        \A b \in get_final_balances(end_date, journal_types) :
            b.amount = get_ledger_balance(b.account_code, end_date,
                                          journal_types)

(* C6 witness: the batch returns a credit-normal account with a nonzero     *)
(* amount made of a beginning balance and a counted line, for an as-of date *)
(* and class set that leave another of its lines out.                       *)
C6_Witness ==
    \E b \in get_final_balances(1, {"GJ", "AJ"}) :
        /\ b.amount # 0
        /\ b.normal_balance = "credit"
        /\ find_account(b.account_code).beginning_balance > 0
        /\ CountedLines(b.account_code, 1, {"GJ", "AJ"}) # {}
        /\ CountedLines(b.account_code, None, {})
               # CountedLines(b.account_code, 1, {"GJ", "AJ"})

-----------------------------------------------------------------------------
(* SpecReport: the inputs of the statements. The registry is the default    *)
(* chart (every beginning balance 0); the journal grows by balanced general *)
(* and adjustment postings, the store accepting every write: a receipt of   *)
(* cash for a sale, a sale on credit, and the collection of a receivable.   *)
ReportPairs == { <<11000, 41000>>, <<11400, 41000>>, <<11000, 11400>> }

ReportGJ ==
    /\ Room(2)
    /\ \E date \in Dates, amount \in Amounts, pair \in ReportPairs :
           akuntan_journal_gj(date, <<"GJ", 0>>, pair[1], amount,
                              pair[2], amount, AllStored(2))

ReportAJ ==
    /\ Room(2)
    /\ \E date \in Dates, amount \in Amounts, pair \in ReportPairs :
           akuntan_adjustment_journal(date,
               << FormLine(pair[1], amount, 0), FormLine(pair[2], 0, amount) >>,
               date, AllStored(2))

NextReport == ReportGJ \/ ReportAJ

SpecReport == Init /\ [][NextReport]_vars

(* C7: get_final_balances returns an account exactly when the absolute      *)
(* value of its amount is at least 0.01 or its code has the prefix 3-, 4-,  *)
(* 5- or 6-.                                                                *)
C7_ReturnedIff ==
    \A end_date \in AsOfDates, journal_types \in ClassSets :
        LET returned == {b.account_code :
                            b \in get_final_balances(end_date, journal_types)}
        IN  \A a \in accounts :
                a.account_code \in returned
                <=> \/ Abs(get_ledger_balance(a.account_code, end_date,
                                              journal_types)) >= TOL
                    \/ Prefix1(a.account_code) \in {3, 4, 5, 6}

(* The general and adjustment lines of every reference code, up to the      *)
(* as-of date, are balanced within 0.01.                                    *)
RefsBalanced(end_date) ==
    \A ref_code \in RefCodesInUse :
        LET counted == SelectSeq(journal_entries,
                           LAMBDA e : /\ e.ref_code = ref_code
                                      /\ e.journal_type \in {"GJ", "AJ"}
                                      /\ DateFilter(e, end_date))
        IN  Abs(SumDebit(counted) - SumCredit(counted)) <= TOL

RECURSIVE SumBeginning(_)
SumBeginning(chart) ==
    IF chart = {} THEN 0
    ELSE LET a == CHOOSE x \in chart : TRUE
         IN  a.beginning_balance + SumBeginning(chart \ {a})

(* The beginning balances of the debit-normal accounts equal those of the   *)
(* credit-normal accounts.                                                  *)
BeginningBalanced ==
    SumBeginning({a \in accounts : a.normal_balance = "debit"})
    = SumBeginning({a \in accounts : a.normal_balance = "credit"})

(* C8: for every as-of date, when the general and adjustment lines of every *)
(* reference code and the beginning balances are balanced, the balance      *)
(* sheet of generate_financial_reports has assets equal to liabilities plus *)
(* equity within 0.01.                                                      *)
C8_BalanceSheetIdentity ==
    \A end_date \in AsOfDates :
        (RefsBalanced(end_date) /\ BeginningBalanced)
        => LET balance_sheet == generate_financial_reports(end_date).balance_sheet
           IN  Abs(balance_sheet.assets
                   - (balance_sheet.liabilities + balance_sheet.equity)) <= TOL

(* C9: for every period, in every journal made of balanced postings, the    *)
(* cash-flow statement has beginning_cash + net_change = ending_cash, and   *)
(* ending_cash equal (within 0.01) to the ledger balance of the cash        *)
(* account at end_date.                                                     *)
C9_CashReconciles ==
    \A start_date \in Dates, end_date \in Dates :
        start_date <= end_date
        => LET statement == generate_cash_flow_statement(start_date, end_date)
           IN  /\ statement.beginning_cash + statement.net_change
                      = statement.ending_cash
               /\ Abs(statement.ending_cash
                      - get_ledger_balance(CASH_ACCOUNT_CODE, end_date, {}))
                      <= TOL

-----------------------------------------------------------------------------
(* SpecInv: purchases and sales of the one product, the store accepting     *)
(* every write. Fish is bought at MaxPrice and sold at MaxPrice + 1 per kg, *)
(* so the average price of the card is MaxPrice throughout and its          *)
(* divisions are exact. A cart holds one or two items of the product.       *)
Quantities == 1..MaxQty

Carts ==
    { <<Item("Ikan Mujair", q, q * (MaxPrice + 1))>> : q \in Quantities }
    \cup { << Item("Ikan Mujair", q[1], q[1] * (MaxPrice + 1)),
              Item("Ikan Mujair", q[2], q[2] * (MaxPrice + 1)) >> :
           q \in Quantities \X Quantities }

RoomRows(n) == Len(inventory_card) + n <= MaxRows

InvPurchase ==
    /\ RoomRows(1)
    /\ \E quantity \in Quantities :
           process_purchase(1, "bibit", "Ikan Mujair", quantity, MaxPrice,
                            quantity * MaxPrice, 1)

InvSale ==
    /\ RoomRows(1)
    /\ tables.sales < MaxRows
    /\ \E quantity \in Quantities :
           process_sale(1, "Ikan Mujair", quantity, MaxPrice + 1,
                        quantity * (MaxPrice + 1))

InvManual ==
    /\ RoomRows(1)
    /\ \E quantity \in Quantities :
           \/ akuntan_manual_transaction("pembelian_bibit", 1, quantity,
                                         MaxPrice, 0, Len(journal_entries))
           \/ akuntan_manual_transaction("penjualan_ikan", 1, quantity,
                                         MaxPrice + 1, 0, Len(journal_entries))

InvPOS ==
    \E items \in Carts :
        /\ RoomRows(Len(items))
        /\ kasir_process_transaction(items, 1)

NextInv == InvPurchase \/ InvSale \/ InvManual \/ InvPOS

SpecInv == Init /\ [][NextInv]_vars

(* C10: after any purchases and sales, every row of the inventory card has  *)
(* balance_quantity >= 0.                                                   *)
C10_StockNonNegative ==
    \A i \in 1..Len(inventory_card) : inventory_card[i].balance_quantity >= 0

(* In SpecInv the card's divisions are exact: every row with stock carries  *)
(* balance_amount = balance_quantity * balance_unit_price.                  *)
ExactAverage ==
    \A i \in 1..Len(inventory_card) :
        inventory_card[i].balance_quantity > 0
        => inventory_card[i].balance_amount
              = inventory_card[i].balance_quantity
                * inventory_card[i].balance_unit_price

(* C11: a sale for more than the product's balance fails and leaves the     *)
(* store as it was: no row in the inventory card, the journal, or the sales *)
(* and transactions tables. In SpecInv a sale is refused for no other       *)
(* reason.                                                                  *)
SaleOps ==
    {"process_sale", "kasir_process_transaction", "akuntan_manual_transaction"}

C11_RefusedSaleWritesNothing ==
    [][ (last'.op \in SaleOps /\ last'.response = "error")
        => UNCHANGED <<accounts, journal_entries, inventory_card, assets,
                       tables>> ]_vars

(* The balances a row starts from: those of the latest earlier row of its   *)
(* product, or zero when it is the product's first row.                     *)
PriorBalance(i) ==
    LET earlier == SubSeq(inventory_card, 1, i - 1)
        product_name == inventory_card[i].product_name
    IN  IF has_inventory_entry(earlier, product_name)
        THEN get_last_inventory_entry(earlier, product_name)
        ELSE Row(0, product_name, <<"", 0>>, 0, 0, 0, 0, 0, 0, 0)

(* C12: every row written by a purchase or a sale has balance_quantity =    *)
(* prior balance_quantity + purchase_quantity - sales_quantity,             *)
(* balance_amount = prior balance_amount + purchase_amount - sales_amount,  *)
(* balance_unit_price = balance_amount / balance_quantity when              *)
(* balance_quantity > 0 and 0 otherwise, and a sale's sales_amount is its   *)
(* quantity times the prior balance_unit_price.                             *)
C12_CardInvariant ==
    \A i \in 1..Len(inventory_card) :
        LET row == inventory_card[i]
            prior == PriorBalance(i)
        IN  /\ row.balance_quantity
                   = prior.balance_quantity + row.purchase_quantity
                     - row.sales_quantity
            /\ row.balance_amount
                   = prior.balance_amount + row.purchase_amount
                     - row.sales_amount
            /\ IF row.balance_quantity > 0
               THEN row.balance_unit_price * row.balance_quantity
                        = row.balance_amount
               ELSE row.balance_unit_price = 0
            /\ row.sales_quantity > 0
               => row.sales_amount
                      = row.sales_quantity * prior.balance_unit_price

-----------------------------------------------------------------------------
(* SpecCard: the inventory card under purchases of MaxQty kg and POS sales  *)
(* of 1 kg on the days of the model, at most MaxRows recordings in all,     *)
(* deletion of a row, and recalculation, the store accepting every write.   *)
RoomRecordings == tables.purchases + tables.transactions < MaxRows

CardPurchase ==
    /\ RoomRecordings
    /\ \E date \in Dates :
           process_purchase(date, "bibit", "Ikan Mujair", MaxQty, MaxPrice,
                            MaxQty * MaxPrice, date)

CardPOS ==
    /\ RoomRecordings
    /\ \E today \in Dates :
           kasir_process_transaction(
               <<Item("Ikan Mujair", 1, MaxPrice + 1)>>, today)

CardDelete ==
    \E card_id \in 1..Len(inventory_card) : delete_inventory_card(card_id)

CardRecalculate == recalculate_inventory_balances

NextCard == CardPurchase \/ CardPOS \/ CardDelete \/ CardRecalculate

SpecCard == Init /\ [][NextCard]_vars

(* C13: recalculating a card that has just been recalculated changes no     *)
(* balance_quantity, balance_amount or balance_unit_price.                  *)
C13_RecalculateIdempotent ==
    recalculated(recalculated(inventory_card)) = recalculated(inventory_card)

(* C13 witness: recalculation has run on a card whose rows are not in date  *)
(* order and holds a sale, and running it again is a second run in a row.   *)
C13_Witness ==
    /\ last.op = "recalculate_inventory_balances"
    /\ recalculated(inventory_card) = inventory_card
    /\ \E i \in 1..Len(inventory_card), j \in 1..Len(inventory_card) :
           /\ i < j
           /\ inventory_card[i].date > inventory_card[j].date
           /\ inventory_card[j].sales_quantity > 0

-----------------------------------------------------------------------------
(* SpecWorksheet: the inputs of the worksheet. The registry is the default  *)
(* chart; the journal grows by balanced general and adjustment postings: a  *)
(* cash sale, a sale on credit, and salaries paid in cash.                  *)
WorksheetPairs == { <<11000, 41000>>, <<11400, 41000>>, <<61300, 11000>> }

WorksheetGJ ==
    /\ Room(2)
    /\ \E date \in Dates, amount \in Amounts, pair \in WorksheetPairs :
           akuntan_journal_gj(date, <<"GJ", 0>>, pair[1], amount,
                              pair[2], amount, AllStored(2))

WorksheetAJ ==
    /\ Room(2)
    /\ \E date \in Dates, amount \in Amounts, pair \in WorksheetPairs :
           akuntan_adjustment_journal(date,
               << FormLine(pair[1], amount, 0), FormLine(pair[2], 0, amount) >>,
               date, AllStored(2))

NextWorksheet == WorksheetGJ \/ WorksheetAJ

SpecWorksheet == Init /\ [][NextWorksheet]_vars

(* C14: on every day, when the adjusted trial balance columns of the        *)
(* worksheet have equal totals, the totals after the net-income line are    *)
(* equal in the income-statement pair and in the balance-sheet pair.        *)
C14_WorksheetBalances ==
    \A end_date \in Dates :
        LET w == akuntan_worksheet(end_date)
        IN  w.total_nsa_debet = w.total_nsa_kredit
            => /\ w.final_lr_debet = w.final_lr_kredit
               /\ w.final_neraca_debet = w.final_neraca_kredit

(* C14 witness: a worksheet with balanced adjusted columns, an adjustment   *)
(* and a net loss, so that the balancing line is added.                     *)
C14_Witness ==
    LET w == akuntan_worksheet(MaxDate)
    IN  /\ w.total_nsa_debet = w.total_nsa_kredit
        /\ w.total_nsa_debet > 0
        /\ w.total_adj_debet > 0
        /\ w.net_income < 0

-----------------------------------------------------------------------------
(* SpecReplay: the registry of SpecLedger; the journal grows by balanced    *)
(* general postings between the two accounts and within the cash account,   *)
(* so that one account gathers up to MaxLines lines.                        *)
ReplayPairs == { <<11000, 41000>>, <<41000, 11000>>, <<11000, 11000>> }

ReplayGJ ==
    /\ Room(2)
    /\ \E date \in Dates, amount \in Amounts, pair \in ReplayPairs :
           akuntan_journal_gj(date, <<"GJ", 0>>, pair[1], amount,
                              pair[2], amount, AllStored(2))

NextReplay == ReplayGJ

SpecReplay == InitLedger /\ [][NextReplay]_vars

(* The lines of the account dated up to end_date, in the order of the store *)
LinesUpTo(account_code, end_date) ==
    SelectSeq(journal_entries,
              LAMBDA e : e.account_code = account_code /\ e.date <= end_date)

Orders(n) ==
    { p \in [1..n -> 1..n] : \A i, j \in 1..n : p[i] = p[j] => i = j }

(* C15: for every account and date, get_ledger_balance equals the running   *)
(* balance that starts from the beginning balance and applies the account's *)
(* lines up to the date one at a time, in whatever order they are taken.    *)
C15_ReplayAnyOrder ==
    \A a \in accounts, end_date \in Dates :
        LET lines == LinesUpTo(a.account_code, end_date)
        IN  \A p \in Orders(Len(lines)) :
                running_balance(a.beginning_balance, a.normal_balance,
                                [i \in 1..Len(lines) |-> lines[p[i]]])
                = get_ledger_balance(a.account_code, end_date, {})

(* C15 witness: an account with a beginning balance, a debit and a credit   *)
(* line up to day 1, and a later line of another amount.                    *)
C15_Witness ==
    \E a \in accounts :
        LET lines == LinesUpTo(a.account_code, 1)
            all == LinesUpTo(a.account_code, MaxDate)
        IN  /\ a.beginning_balance > 0
            /\ \E i, j \in 1..Len(lines) :
                   lines[i].debit > 0 /\ lines[j].credit > 0
            /\ \E k \in 1..Len(all) :
                   /\ all[k].date > 1
                   /\ all[k].debit + all[k].credit # lines[1].debit + lines[1].credit

-----------------------------------------------------------------------------
(* SpecRegistry: the accounts pages on the default chart. Codes are typed   *)
(* into the form well-formed and malformed, new and already registered;     *)
(* accounts are deleted with and without journal lines; the store may       *)
(* refuse a write of either page.                                           *)
CodeTexts ==
    { <<"7", "-", "0", "0", "0", "1">>,
      <<" ", "7", "-", "0", "0", "0", "1", " ">>,
      <<"1", "-", "1", "0", "0", "0">>,
      <<"7", "0", "0", "0", "1">>,
      <<"7", "-", "0", "0", "1">>,
      <<"7", "-", "0", "0", "0", "1", "2">>,
      <<"a", "-", "0", "0", "0", "1">>,
      <<"7", "_", "0", "0", "0", "1">>,
      <<" ">> }

RegistryPairs == { <<11000, 41000>>, <<70001, 41000>> }

RemoveCodes == {11000, 70001, 80001}

RegistryRegister ==
    \E text \in CodeTexts, normal_balance \in {"debit", "credit"},
       stored \in BOOLEAN :
        akuntan_accounts(text, normal_balance, 0, stored)

RegistryRemove ==
    \E account_code \in RemoveCodes, stored \in StoreOutcomes(2) :
        akuntan_delete_account(account_code, stored)

RegistryGJ ==
    /\ Room(2)
    /\ \E pair \in RegistryPairs :
           akuntan_journal_gj(1, <<"GJ", 0>>, pair[1], MaxAmount,
                              pair[2], MaxAmount, AllStored(2))

NextRegistry == RegistryRegister \/ RegistryRemove \/ RegistryGJ

SpecRegistry == Init /\ [][NextRegistry]_vars

NoSharedCode ==
    \A a, b \in accounts : a.account_code = b.account_code => a = b

(* C16: a registration whose code is already registered, or does not read   *)
(* one digit, a dash, four digits, reports an error and leaves the registry *)
(* as it was; and no two accounts of the registry ever share a code.        *)
C16_RegisterRefuses ==
    /\ []NoSharedCode
    /\ [][ \A text \in CodeTexts, normal_balance \in {"debit", "credit"},
              stored \in BOOLEAN :
               ( /\ last'.op = "akuntan_accounts"
                 /\ \/ ~matches_code_pattern(strip(text))
                    \/ code_of(strip(text)) \in AccountCodes
                 /\ akuntan_accounts(text, normal_balance, 0, stored) )
               => /\ accounts' = accounts
                  /\ last'.response = "error" ]_vars

(* C16 witness: a registration was refused while the registry holds an      *)
(* account that the form added.                                             *)
C16_Witness ==
    /\ last.op = "akuntan_accounts"
    /\ last.response = "error"
    /\ ~last.store_failed
    /\ 70001 \in AccountCodes

(* C17: a delete that reports success leaves no journal line on the code    *)
(* and no account with the code, and leaves every other account and every   *)
(* journal line of another account as it was.                               *)
C17_RemoveCascades ==
    [][ \A account_code \in RemoveCodes, stored \in StoreOutcomes(2) :
            ( /\ last'.op = "akuntan_delete_account"
              /\ last'.response = "success"
              /\ akuntan_delete_account(account_code, stored) )
            => /\ lines_of(journal_entries', account_code) = <<>>
               /\ account_code \notin {a.account_code : a \in accounts'}
               /\ accounts' = {a \in accounts : a.account_code # account_code}
               /\ journal_entries' =
                      SelectSeq(journal_entries,
                                LAMBDA e : e.account_code # account_code) ]_vars

(* C17 witness: an account with journal lines was deleted and lines of      *)
(* other accounts remain.                                                   *)
C17_Witness ==
    /\ last.op = "akuntan_delete_account"
    /\ last.response = "success"
    /\ last.n_lines > 0
    /\ journal_entries # <<>>

-----------------------------------------------------------------------------
(* SpecAssets: the fixed-asset register on the default chart. Assets are    *)
(* added and edited with a cost above their salvage value, and depreciation *)
(* is recorded, the store accepting or refusing each write.                 *)
AssetIds == {1, 2}
Costs == {MaxAmount + 1, MaxAmount + 2}
SalvageValues == {0, 1}

AssetCreate ==
    \E asset_code \in AssetIds, salvage_value \in SalvageValues,
       stored \in BOOLEAN :
        create_asset(asset_code, MaxAmount + 1, salvage_value, stored)

AssetUpdate ==
    \E asset_id \in AssetIds, cost \in Costs :
        update_asset(asset_id, cost, 0, TRUE)

AssetDepreciation ==
    /\ Room(2)
    /\ \E asset_id \in AssetIds, stored \in StoreOutcomes(3) :
           record_depreciation_entry(asset_id, 1, 1, stored)

NextAssets == AssetCreate \/ AssetUpdate \/ AssetDepreciation

SpecAssets == Init /\ [][NextAssets]_vars

BookValueIdentity ==
    \A asset \in assets :
        asset.book_value = asset.cost - asset.accumulated_depreciation

DepreciationAccumulates ==
    ( /\ last'.op = "record_depreciation_entry"
      /\ last'.response = "success" )
    => \E asset \in assets, updated \in assets' :
           /\ updated.id = asset.id
           /\ updated.accumulated_depreciation =
                  asset.accumulated_depreciation + last'.total_debit
           /\ assets' \ {updated} = assets \ {asset}

(* C20: every asset of the register has book_value equal to cost minus      *)
(* accumulated_depreciation, and a depreciation posting that reports        *)
(* success raises the accumulated depreciation of one asset by the posted   *)
(* amount.                                                                  *)
C20_BookValue ==
    /\ []BookValueIdentity
    /\ [][DepreciationAccumulates]_vars

-----------------------------------------------------------------------------
(* SpecFlow: general postings between the cash account and one account of   *)
(* each class of the default chart, cash received or paid, each posting     *)
(* under a reference code of its own, so that every transaction of the      *)
(* cash-flow statement is one cash line and one offsetting line.            *)
FlowAccounts ==
    {41000, 51000, 61300, 11200, 21000, 12200, 22000, 31000, 31100}

Flows == {"op_in", "op_out", "inv_in", "inv_out", "fin_in", "fin_out"}

FlowGJ ==
    /\ Room(2)
    /\ \E amount \in Amounts, account \in FlowAccounts, received \in BOOLEAN :
           LET ref_code == <<"GJ", Len(journal_entries)>>
           IN  IF received
               THEN akuntan_journal_gj(1, ref_code, CASH_ACCOUNT_CODE, amount,
                                       account, amount, AllStored(2))
               ELSE akuntan_journal_gj(1, ref_code, account, amount,
                                       CASH_ACCOUNT_CODE, amount, AllStored(2))

NextFlow == FlowGJ

SpecFlow == Init /\ [][NextFlow]_vars

(* The bucket of a pair by the code of its counterpart *)
ExpectedBucket(code, movement) ==
    CASE Prefix1(code) = 4 -> "op_in"
      [] Prefix1(code) \in {5, 6} -> "op_out"
      [] Prefix2(code) = 11 /\ code # CASH_ACCOUNT_CODE -> "op_out"
      [] Prefix2(code) = 21 -> "op_out"
      [] Prefix2(code) = 12 /\ movement > 0 -> "inv_in"
      [] Prefix2(code) = 12 /\ movement <= 0 -> "inv_out"
      [] code = 31100 -> "fin_out"
      [] (Prefix2(code) = 22 \/ Prefix1(code) = 3) /\ code # 31100
             /\ movement > 0 -> "fin_in"
      [] (Prefix2(code) = 22 \/ Prefix1(code) = 3) /\ code # 31100
             /\ movement <= 0 -> "fin_out"

Bucket(flow) ==
    aggregate(entries_in_period(1, MaxDate), entries_in_period(1, MaxDate),
              flow)

(* C21: a posted pair of a cash line and an offsetting line adds the        *)
(* absolute cash movement to the bucket its counterpart code determines and *)
(* leaves every other bucket as it was.                                     *)
C21_PairClassified ==
    [][ Len(journal_entries') = Len(journal_entries) + 2
        => LET n == Len(journal_entries)
               first == journal_entries'[n + 1]
               second == journal_entries'[n + 2]
               cash == IF first.account_code = CASH_ACCOUNT_CODE
                       THEN first ELSE second
               counterpart == IF first.account_code = CASH_ACCOUNT_CODE
                              THEN second ELSE first
           IN  \A flow \in Flows :
                   Bucket(flow)' = Bucket(flow)
                       + (IF flow = ExpectedBucket(counterpart.account_code,
                                                   cash_movement(cash))
                          THEN Abs(cash_movement(cash)) ELSE 0) ]_vars

(* C21 witness: cash was received against the drawings account and paid     *)
(* for a fixed asset.                                                       *)
C21_Witness ==
    /\ \E i \in 1..Len(journal_entries) :
           /\ journal_entries[i].account_code = 31100
           /\ journal_entries[i].credit > 0
    /\ \E i \in 1..Len(journal_entries) :
           /\ journal_entries[i].account_code = 12200
           /\ journal_entries[i].debit > 0
    /\ Bucket("fin_out") > 0
    /\ Bucket("inv_out") > 0

-----------------------------------------------------------------------------
(* SpecMatch: general postings between the cash account and a revenue, a    *)
(* fixed-asset and an equity account, all under the form's default          *)
(* reference code, so that the lines of several postings make one           *)
(* transaction of the cash-flow statement.                                  *)
MatchAccounts == {41000, 12200, 31000}

MatchGJ ==
    /\ Room(2)
    /\ \E date \in Dates, amount \in Amounts, account \in MatchAccounts,
          received \in BOOLEAN :
           IF received
           THEN akuntan_journal_gj(date, <<"GJ", 0>>, CASH_ACCOUNT_CODE,
                                   amount, account, amount, AllStored(2))
           ELSE akuntan_journal_gj(date, <<"GJ", 0>>, account, amount,
                                   CASH_ACCOUNT_CODE, amount, AllStored(2))

NextMatch == MatchGJ

SpecMatch == Init /\ [][NextMatch]_vars

(* The positions, in the transaction's non-cash lines, of the lines that    *)
(* offset the cash line                                                     *)
Offsetting(cash_entry, others) ==
    { j \in 1..Len(others) :
          Abs(cash_movement(cash_entry) + cash_movement(others[j])) < TOL }

Minimum(S) == CHOOSE m \in S : \A n \in S : m <= n

(* What one cash line adds to a bucket *)
Contribution(cash_entry, period, flow) == aggregate(<<cash_entry>>, period, flow)

Periods == { p \in Dates \X Dates : p[1] <= p[2] }

StoredOthers(p, trans_id) ==
    SelectSeq(journal_entries,
              LAMBDA e : /\ p[1] <= e.date /\ e.date <= p[2]
                         /\ e.ref_code = trans_id
                         /\ e.account_code # CASH_ACCOUNT_CODE)

C30_LineNotConsumed ==
    LET period == entries_in_period(1, MaxDate)
    IN  \A i, k \in 1..Len(period) :
            ( /\ i < k
              /\ period[i].account_code = CASH_ACCOUNT_CODE
              /\ period[k].account_code = CASH_ACCOUNT_CODE
              /\ period[i].ref_code = period[k].ref_code
              /\ cash_movement(period[i]) = cash_movement(period[k])
              /\ Offsetting(period[i],
                     other_entries(period, period[i].ref_code)) # {} )
            => LET others == other_entries(period, period[i].ref_code)
                   paired == others[Minimum(Offsetting(period[i], others))]
                   flow == ExpectedBucket(paired.account_code,
                                          cash_movement(period[i]))
               IN  /\ Contribution(period[i], period, flow)
                          = Abs(cash_movement(period[i]))
                   /\ Contribution(period[k], period, flow)
                          = Abs(cash_movement(period[k]))
                   /\ aggregate(period, period, flow)
                          >= 2 * Abs(cash_movement(period[i]))

(* C30 witness: two cash lines with the same movement and two offsetting    *)
(* lines of the same magnitude on accounts of different buckets.            *)
C30_Witness ==
    LET period == entries_in_period(1, MaxDate)
    IN  \E i, k \in 1..Len(period) :
            /\ i < k
            /\ period[i].account_code = CASH_ACCOUNT_CODE
            /\ period[k].account_code = CASH_ACCOUNT_CODE
            /\ cash_movement(period[i]) = cash_movement(period[k])
            /\ LET others == other_entries(period, period[i].ref_code)
               IN  /\ Len(others) = 2
                   /\ Offsetting(period[i], others) = {1, 2}
                   /\ others[1].account_code # others[2].account_code

-----------------------------------------------------------------------------
(* SpecProducts: seed purchases of two products on the days of the model,   *)
(* at most MaxRows of them, deletion of a row, and recalculation, the store *)
(* accepting every write.                                                   *)
Products == {"Ikan Mujair", "Ikan Nila"}

ProductPurchase ==
    /\ tables.purchases < MaxRows
    /\ \E date \in Dates, item_name \in Products :
           process_purchase(date, "bibit", item_name, MaxQty, MaxPrice,
                            MaxQty * MaxPrice, date)

ProductDelete ==
    \E card_id \in 1..Len(inventory_card) : delete_inventory_card(card_id)

ProductRecalculate == recalculate_inventory_balances

NextProducts == ProductPurchase \/ ProductDelete \/ ProductRecalculate

SpecProducts == Init /\ [][NextProducts]_vars

(* Purchases less sales, in quantity and in amount, over the rows of the    *)
(* product among the first k rows of the order                              *)
RECURSIVE ProductQuantity(_, _, _, _)
ProductQuantity(card, order, k, product_name) ==
    IF k = 0 THEN 0
    ELSE ProductQuantity(card, order, k - 1, product_name)
         + (IF card[order[k]].product_name = product_name
            THEN card[order[k]].purchase_quantity
                 - card[order[k]].sales_quantity
            ELSE 0)

RECURSIVE ProductAmount(_, _, _, _)
ProductAmount(card, order, k, product_name) ==
    IF k = 0 THEN 0
    ELSE ProductAmount(card, order, k - 1, product_name)
         + (IF card[order[k]].product_name = product_name
            THEN card[order[k]].purchase_amount - card[order[k]].sales_amount
            ELSE 0)

PerProductBalances(card) ==
    LET order == ids_by_date(card, 1)
    IN  \A k \in 1..Len(order) :
            LET row == card[order[k]]
                quantity == ProductQuantity(card, order, k, row.product_name)
                amount == ProductAmount(card, order, k, row.product_name)
            IN  /\ row.balance_quantity = quantity
                /\ row.balance_amount = amount
                /\ row.balance_unit_price =
                       IF quantity > 0 THEN amount \div quantity ELSE 0

(* C23: after a recalculation every row of the card carries the running     *)
(* sums, purchases less sales, of the rows of its own product up to and     *)
(* including it in (date, id) order from zero, and their quotient as unit   *)
(* price when the quantity is positive, 0 otherwise.                        *)
C23_RecalculatePerProduct ==
    [][ last'.op = "recalculate_inventory_balances"
        => PerProductBalances(inventory_card') ]_vars

-----------------------------------------------------------------------------
(* SpecTrial: the registry of SpecLedger; general postings between the two  *)
(* accounts under two reference codes, with equal amounts or with a debit   *)
(* 0.01 above the credit (which the form accepts), and adjustment postings  *)
(* of equal amounts.                                                        *)
TrialAmounts ==
    { <<a, a>> : a \in Amounts } \cup { <<a + 1, a>> : a \in Amounts }

TrialGJ ==
    /\ Room(2)
    /\ \E amounts \in TrialAmounts, pair \in LedgerPairs, n \in {0, 1} :
           akuntan_journal_gj(1, <<"GJ", n>>, pair[1], amounts[1],
                              pair[2], amounts[2], AllStored(2))

TrialAJ ==
    /\ Room(2)
    /\ \E amount \in Amounts, pair \in LedgerPairs :
           akuntan_adjustment_journal(1,
               << FormLine(pair[1], amount, 0), FormLine(pair[2], 0, amount) >>,
               1, AllStored(2))

NextTrial == TrialGJ \/ TrialAJ

SpecTrial == InitLedger /\ [][NextTrial]_vars

(* The general lines of a reference code *)
GeneralLines(ref_code) ==
    SelectSeq(journal_entries,
              LAMBDA e : e.ref_code = ref_code /\ e.journal_type = "GJ")

-----------------------------------------------------------------------------
(* SpecEdit: general and adjustment postings and edits of stored lines on   *)
(* the default chart. The forms carry what parse_rupiah makes of the typed  *)
(* text: an amount, zero, or an amount below zero; an adjustment row may    *)
(* hold a debit and a credit. The first line of the journal is edited      *)
(* through the amounts form, the second through the general-journal form.   *)
EditAmounts == {-1, 0, MaxAmount}

EditForms ==
    { << FormLine(61000, MaxAmount, 0), FormLine(11000, 0, MaxAmount) >>,
      << FormLine(61000, MaxAmount, MaxAmount) >>,
      << FormLine(61000, -1, 0), FormLine(11000, 0, -1) >> }

EditPostGJ ==
    /\ Room(2)
    /\ akuntan_journal_gj(1, <<"GJ", 0>>, 11000, MaxAmount, 41000, MaxAmount,
                          AllStored(2))

EditPostAJ ==
    \E lines \in EditForms :
        /\ Room(Len(lines))
        /\ akuntan_adjustment_journal(1, lines, 1, AllStored(Len(lines)))

EditEntry ==
    /\ Len(journal_entries) >= 1
    /\ \E debit \in EditAmounts, credit \in EditAmounts :
           akuntan_edit_journal_entry(1, debit, credit)

EditGJ ==
    /\ Len(journal_entries) >= 2
    /\ \E debit \in EditAmounts, credit \in EditAmounts :
           akuntan_edit_journal_gj(2, 1, 11000, debit, credit, <<"GJ", 0>>)

NextEdit == EditPostGJ \/ EditPostAJ \/ EditEntry \/ EditGJ

SpecEdit == Init /\ [][NextEdit]_vars

(* C25: no line of the journal has a debit and a credit above zero, and no  *)
(* line has a debit or a credit below zero.                                 *)
C25_LinesOneSided ==
    \A i \in 1..Len(journal_entries) :
        /\ journal_entries[i].debit >= 0
        /\ journal_entries[i].credit >= 0
        /\ ~(journal_entries[i].debit > 0 /\ journal_entries[i].credit > 0)

-----------------------------------------------------------------------------
(* SpecRace: general postings of equal debit and credit on the default      *)
(* chart, taken one store write at a time, one posting in progress at most. *)
(* The trial balance page reads the store and writes nothing, so what it    *)
(* shows when served in a state is akuntan_trial_balance of that state.     *)
RacePairs == { <<11000, 41000>>, <<11400, 41000>>, <<61300, 11000>> }

PostingInProgress == last.response = "pending"

RaceDebit ==
    /\ ~PostingInProgress
    /\ Room(2)
    /\ \E date \in Dates, amount \in Amounts, pair \in RacePairs :
           akuntan_journal_gj_debit(date, <<"GJ", 0>>, pair[1], amount)

RaceCredit ==
    /\ PostingInProgress
    /\ \E pair \in RacePairs :
           /\ pair[1] = journal_entries[Len(journal_entries)].account_code
           /\ akuntan_journal_gj_credit(
                  pair[2], journal_entries[Len(journal_entries)].debit)

NextRace == RaceDebit \/ RaceCredit

SpecRace == Init /\ [][NextRace]_vars

(* C26: the trial balance read between the debit insert and the credit      *)
(* insert of a general posting has total debit different from total credit, *)
(* and the trial balance read when no posting is in progress, every         *)
(* completed posting being balanced, has them equal.                        *)
C26_PartialPostingObserved ==
    /\ PostingInProgress
       => akuntan_trial_balance.total_debit # akuntan_trial_balance.total_credit
    /\ ~PostingInProgress
       => akuntan_trial_balance.total_debit = akuntan_trial_balance.total_credit

(* C26 witness: a posting has completed, another is between its inserts,    *)
(* and the trial balance of that state is out of balance.                   *)
C26_Witness ==
    /\ PostingInProgress
    /\ Len(journal_entries) = 3
    /\ SumDebit(SubSeq(journal_entries, 1, 2))
           = SumCredit(SubSeq(journal_entries, 1, 2))
    /\ akuntan_trial_balance.total_debit # akuntan_trial_balance.total_credit

-----------------------------------------------------------------------------
(* Purchases recorded by an employee and edited afterwards.  The form date  *)
(* of a purchase is free, so a purchase may carry a date other than the day *)
(* it was recorded on.                                                      *)
PurchaseTypes == {"bibit", "peralatan"}

PurchaseRecord ==
    /\ tables.purchases < MaxRows - 1
    /\ \E date \in Dates, today \in Dates, item_type \in PurchaseTypes,
          quantity \in 1..MaxQty :
           process_purchase(date, item_type, "Ikan Mujair", quantity, MaxPrice,
                            quantity * MaxPrice, today)

PurchaseEdit ==
    /\ Len(journal_entries) < 2 * MaxRows
    /\ \A i \in 1..Len(inventory_card) :
           inventory_card[i].balance_quantity <= MaxRows
    /\ \E purchase_id \in 1..tables.purchases, date \in Dates,
          item_type \in PurchaseTypes, quantity \in 1..MaxQty :
           karyawan_edit_purchase(purchase_id, date, item_type, "Ikan Mujair",
                                  quantity, MaxPrice)

NextPurchase == PurchaseRecord \/ PurchaseEdit

SpecPurchase == Init /\ [][NextPurchase]_vars

(* The journal lines of a purchase: the lines whose reference code carries  *)
(* the BL prefix and the purchase's id                                      *)
PurchaseLines(journal, purchase_id) ==
    SelectSeq(journal, LAMBDA e : /\ e.ref_code[1] = "BL"
                                  /\ e.ref_code[2][2] = purchase_id)

(* C27: after karyawan_edit_purchase the journal holds exactly one debit    *)
(* line and one cash credit line for the edited purchase, both for the new  *)
(* total, whatever the purchase's stored date and recording day were.       *)
C27_EditLeavesOnePair ==
    [][ last'.op = "karyawan_edit_purchase" =>
          LET edited == journal_entries'[Len(journal_entries')].ref_code[2][2]
              lines == PurchaseLines(journal_entries', edited)
          IN  /\ Len(lines) = 2
              /\ \E i, j \in 1..2 :
                    /\ lines[i].debit = last'.total_debit
                    /\ lines[i].credit = 0
                    /\ lines[j].account_code = CASH_ACCOUNT_CODE
                    /\ lines[j].credit = last'.total_debit
                    /\ lines[j].debit = 0 ]_vars

-----------------------------------------------------------------------------
(* The worksheet and the income statement over a registry to which the      *)
(* accountant adds an income-statement account of either normal balance:    *)
(* a sales-discount account 4-2000 and an expense-recovery account 6-2000.  *)
IncomeTexts == { <<"4", "-", "2", "0", "0", "0">>,
                 <<"6", "-", "2", "0", "0", "0">> }

IncomePairs == { <<11000, 41000>>, <<42000, 11000>>, <<11000, 62000>>,
                 <<61300, 11000>> }

IncomeRegister ==
    \E text \in IncomeTexts, normal_balance \in {"debit", "credit"} :
        akuntan_accounts(text, normal_balance, 0, TRUE)

IncomeGJ ==
    /\ Room(2)
    /\ \E amount \in Amounts, pair \in IncomePairs :
           /\ pair[1] \in AccountCodes
           /\ pair[2] \in AccountCodes
           /\ akuntan_journal_gj(1, <<"GJ", 0>>, pair[1], amount,
                                 pair[2], amount, AllStored(2))

IncomeAJ ==
    /\ Room(2)
    /\ \E pair \in IncomePairs :
           /\ pair[1] \in AccountCodes
           /\ pair[2] \in AccountCodes
           /\ akuntan_adjustment_journal(MaxDate,
                  << FormLine(pair[1], MaxAmount, 0),
                     FormLine(pair[2], 0, MaxAmount) >>,
                  MaxDate, AllStored(2))

NextIncome == IncomeRegister \/ IncomeGJ \/ IncomeAJ

SpecIncome == Init /\ [][NextIncome]_vars

(* C28: for the same journal and as-of date, the net income of the          *)
(* worksheet equals the net income of generate_income_statement, whatever   *)
(* the normal balance of the revenue and expense accounts of the registry.  *)
C28_NetIncomeAgrees ==
    \A end_date \in Dates :
        akuntan_worksheet(end_date).net_income
            = generate_financial_reports(end_date).income_statement.net_income

-----------------------------------------------------------------------------
(* C29: after seed purchases and sales of one product through               *)
(* process_purchase, process_sale, create_transaction and the manual        *)
(* transaction form, from a zero beginning balance and with no edit or      *)
(* deletion, the ledger balance of the inventory account 1-1200 equals the  *)
(* balance_amount of the product's latest card row.                         *)
C29_InventoryAccountMatchesCard ==
    get_ledger_balance(11200, None, {})
        = IF has_inventory_entry(inventory_card, "Ikan Mujair")
          THEN get_last_inventory_entry(inventory_card,
                                        "Ikan Mujair").balance_amount
          ELSE 0

(* C29 witness: a sale has just been recorded on a card that holds a        *)
(* purchase of process_purchase, and stock of value is left.                *)
C29_Witness ==
    /\ last.response = "success"
    /\ last.op \in {"process_sale", "kasir_process_transaction",
                    "akuntan_manual_transaction"}
    /\ Len(inventory_card) >= 2
    /\ inventory_card[Len(inventory_card)].sales_quantity > 0
    /\ inventory_card[Len(inventory_card)].balance_amount > 0
    /\ \E i \in 1..Len(inventory_card) :
           /\ inventory_card[i].doc_no[1] = "BL"
           /\ inventory_card[i].purchase_amount > 0
    /\ get_ledger_balance(11200, None, {})
           = inventory_card[Len(inventory_card)].balance_amount


=============================================================================
